---- MODULE Spec2Model ----
(***************************************************************************)
(* A model of the concurrency core of the spoor logging library:           *)
(*   - the Dispatcher, AsyncLogger (src/async_logger.go): a bounded        *)
(*     channel, a pool of workers with local batches, a periodic flush     *)
(*     goroutine and Close;                                                *)
(*   - the Batcher, BatchWriter (src/unnamed/part_002): a mutex-protected  *)
(*     pending buffer, flush with retry, a flush goroutine and Close.      *)
(* Each component has its own specification (SpecDispatcher, SpecBatcher); *)
(* the variables of the other component keep their initial values.         *)
(***************************************************************************)
EXTENDS Integers, Sequences, FiniteSets, TLC

(***************************************************************************)
(* Bounds of the exploration.                                              *)
(***************************************************************************)
NumProducers == 2
MaxCalls == 2
NumClosers == 2
NumWriters == 2
MaxWrites == 2
NumCallers == 2
MaxCoreOps == 3
NumGoroutines == 2
MaxLogCalls == 3
DrawResolution == 8
MaxBurst == 101
MaxStrLen == 2
MaxMetricOps == 4
NumRecorders == 2
MaxMaps == 2
MaxPoolOps == 5

(***************************************************************************)
(* Program constants and configuration.                                    *)
(***************************************************************************)
LevelDebug == 1
LevelInfo == 2
LevelWarn == 3
SentinelLevel == 0 - 1
WorkerBatchCap == 100
\* The configurations explored: AsyncLoggerConfig.WorkerCount and .BufferSize.
WorkerCounts == {1, 2}
BufferSizes == {1, 2}
\* The configurations explored: BatchWriterConfig.BatchSize and .MaxRetries.
BatchSizes == {1, 2}
MaxRetriesChoices == {0, 1, 2}

Producers == 1..NumProducers
Closers == 1..NumClosers
Workers == 1..2
CallLevels == {LevelDebug, LevelInfo}
Writers == 1..NumWriters

\* The elements of a sequence.
Range(q) == {q[i] : i \in DOMAIN q}

\* A LogEntry made by a log call: its level, and who made it and in which call.
LogEntry(lvl, p, k) == [level |-> lvl, src |-> p, seq |-> k]
\* The marker entry Sync sends through the data channel.
Sentinel == [level |-> SentinelLevel, src |-> 0, seq |-> 0]

VARIABLES
  \* ---- Dispatcher (AsyncLogger) ----
  level,          \* CoreLogger.level, the threshold
  workerCount,    \* AsyncLogger.workerCount
  bufferSize,     \* AsyncLogger.bufferSize, the channel's capacity
  entryChan,      \* the buffered channel's content, oldest first
  chanClosed,     \* close(entryChan) has been executed
  closed,         \* AsyncLogger.closed (atomic int32)
  ctxDone,        \* l.cancel() has been called
  tickerStopped,  \* flushTicker.Stop() has been called
  wpc,            \* worker goroutines: "run" | "done" | "none"
  wbatch,         \* each worker's local batch
  fpc,            \* flushLoop goroutine: "select" | "sync" | "done"
  ppc,            \* producers inside log: "idle" | "send"
  pentry,         \* the entry a producer is about to send
  pcalls,         \* entries made by each producer's log calls
  nsyncs,         \* Sync calls started
  cpc,            \* callers of Close
  sink,           \* entries the writer has received, in order
  sinkCloseCount, \* times writer.Close() was invoked
  chanCloseCount, \* times close(entryChan) was executed
  DroppedLogs,    \* metrics.DroppedLogs
  TotalLogs,      \* metrics.TotalLogs
  panicked,       \* "no", or the runtime panic the process died of
  returnedBeforeClose, \* history: entries whose log call returned before Close
  enqueuedBeforeClose, \* history: those of them that were placed on the channel
  lateCalls            \* history: log calls that returned at the closed check

dvars == <<level, workerCount, bufferSize, entryChan, chanClosed, closed, ctxDone,
           tickerStopped, wpc, wbatch, fpc, ppc, pentry,
           pcalls, nsyncs, cpc, sink, sinkCloseCount, chanCloseCount,
           DroppedLogs, TotalLogs, panicked, returnedBeforeClose, enqueuedBeforeClose,
           lateCalls>>

VARIABLES
  \* ---- Batcher (BatchWriter) ----
  bwBatchSize,      \* config.BatchSize
  bwMaxRetries,     \* config.MaxRetries
  failPlan,         \* the sink: the write calls (by number) that return an error
  bwBatch,          \* bw.batch, the pending buffer
  bwMu,             \* holder of bw.mu, or NoProc
  bwClosed,         \* bw.closed (atomic int32)
  bwCtxDone,        \* bw.cancel() has been called
  bpc,              \* position of every goroutine using the BatchWriter
  flBatch,          \* flushBatch's argument: the copy made by flushUnsafe
  flRetries,        \* flushBatch's local retries
  sinkCalls,        \* write calls the sink has received
  bwSink,           \* entries the sink has accepted, in order
  bwSinkCloseCount, \* times writer.Close() was invoked
  TotalBatches,     \* metrics.TotalBatches
  TotalEntries,     \* metrics.TotalEntries
  FailedBatches,    \* metrics.FailedBatches
  RetryCount,       \* metrics.RetryCount
  bwReturn,         \* the latest return of WriteEntry, Flush or Close: who, what
  wcalls,           \* entries made by each writer's WriteEntry calls
  wroteBeforeClose, \* history: entries whose WriteEntry returned before Close
  deliveredEntries, \* history: entries of the batches whose flushBatch returned nil
  discardedEntries  \* history: entries of the batches whose flushBatch gave up

bvars == <<bwBatchSize, bwMaxRetries, failPlan, bwBatch, bwMu, bwClosed,
           bwCtxDone, bpc, flBatch, flRetries, sinkCalls, bwSink,
           bwSinkCloseCount, TotalBatches, TotalEntries, FailedBatches,
           RetryCount, bwReturn, wcalls, wroteBeforeClose, deliveredEntries,
           discardedEntries>>


VARIABLES
  \* ---- Facade (CoreLogger, AdvancedLogger) ----
  clVariant,      \* what the constructor made: "core" | "advanced"
  clMetrics,      \* AdvancedLogger.metrics != nil
  clFilter,       \* AdvancedLogger.filter != nil
  clSampler,      \* AdvancedLogger.sampler != nil
  clSamplerCalls, \* calls of the sampler's ShouldSample (RateSampler.counter)
  clRejects,      \* history: entries rejected by the filter, by the sampler
  clHooks,        \* CoreLogger.hooks, shared by the derived loggers
  clWriterFails,  \* the writer returns an error from every write
  clCount,        \* loggers made so far
  clLevel,        \* CoreLogger.level of each logger
  clFields,       \* CoreLogger.fields of each logger
  clParent,       \* history: the logger each logger was derived from
  clAdded,        \* history: the field its derivation added
  kpc,            \* callers inside log: "idle" | "hooks" | "write"
  kentry,         \* the entry a caller's log call has built
  kfired,         \* times each hook was fired for that entry
  clSink,         \* entries handed to the writer, in order
  clErrorCount,   \* MetricsCollector.errorCount
  clDroppedCount, \* MetricsCollector.droppedLogs
  clTotalLogs,    \* MetricsCollector.totalLogs
  clWriteErrors,  \* history: writes the writer has failed
  clHookErrors,   \* history: Fire calls that returned an error
  nops            \* calls of log, WithField and SetLevel made

cvars == <<clVariant, clMetrics, clFilter, clSampler, clSamplerCalls, clRejects,
           clHooks, clWriterFails, clCount,
           clLevel, clFields, clParent, clAdded, kpc, kentry, kfired, clSink,
           clErrorCount, clDroppedCount, clTotalLogs, clWriteErrors,
           clHookErrors, nops>>

VARIABLES
  \* ---- BaseWriter under a CoreLogger ----
  wsBatchSize,    \* BaseWriter.batchSize
  wsBuffer,       \* BaseWriter.buffer
  wsMu,           \* holder of BaseWriter.mu, or NoProc
  wsClosed,       \* BaseWriter.closed
  wsStopped,      \* close(w.stopChan) has been executed
  wsOutput,       \* entries written to w.output, in order
  gpc,            \* position of every goroutine using the BaseWriter
  gcalls,         \* log calls made by each goroutine
  wsRejected      \* history: WriteEntry calls that found the writer closed

wvars == <<wsBatchSize, wsBuffer, wsMu, wsClosed, wsStopped, wsOutput, gpc,
           gcalls, wsRejected>>

VARIABLES
  \* ---- RateSampler ----
  rsRate,         \* RateSampler.rate, in units of 1/DrawResolution
  rsCounter,      \* RateSampler.counter
  rsDraw,         \* the latest value of rand.Float64(), in the same units
  rsResult        \* the latest result of ShouldSample: "none" | "accept" | "reject"

svars == <<rsRate, rsCounter, rsDraw, rsResult>>

VARIABLES
  \* ---- FieldFilter ----
  ffOperator,     \* FieldFilter.operator
  ffTarget,       \* FieldFilter.value
  ffValue,        \* entry.Fields[ff.field], or absent
  ffResult        \* the result of ShouldLog: "none" | "accept" | "reject"

fvars == <<ffOperator, ffTarget, ffValue, ffResult>>

VARIABLES
  \* ---- MetricsCollector ----
  mcTotalLogs,    \* MetricsCollector.totalLogs
  mcLogsByLevel,  \* MetricsCollector.logsByLevel
  mcWriter,       \* holder of mc.mu for writing, or NoProc
  mcReaders,      \* holders of mc.mu for reading
  mpc,            \* position of every goroutine using the collector
  mcArg,          \* the level of the entry of each RecordLog in progress
  mcSnapshot,     \* the map GetMetrics builds and returns
  mcReturned,     \* history: snapshots returned by GetMetrics
  mcOps           \* calls of RecordLog, GetMetrics and Reset made

mvars == <<mcTotalLogs, mcLogsByLevel, mcWriter, mcReaders, mpc, mcArg,
           mcSnapshot, mcReturned, mcOps>>

VARIABLES
  \* ---- LogEntryPool ----
  plPool,         \* the entries the sync.Pool holds
  plHeld,         \* the entry each caller got and has not put back
  plMaps,         \* the Fields maps allocated by New, by identity
  plAllocated,    \* maps allocated so far
  plOps           \* calls of GetLogEntry and PutLogEntry and uses made

pvars == <<plPool, plHeld, plMaps, plAllocated, plOps>>

(***************************************************************************)
(* Dispatcher: AsyncLogger                                                 *)
(***************************************************************************)

\* NewAsyncLogger: the channel is empty and open, the workers and the flush
\* goroutine are running, the metrics are zero.
NewAsyncLogger(wc, bs) ==
  /\ level = LevelInfo
  /\ workerCount = wc
  /\ bufferSize = bs
  /\ entryChan = <<>>
  /\ chanClosed = FALSE
  /\ closed = 0
  /\ ctxDone = FALSE
  /\ tickerStopped = FALSE
  /\ wpc = [w \in Workers |-> IF w <= wc THEN "run" ELSE "none"]
  /\ wbatch = [w \in Workers |-> <<>>]
  /\ fpc = "select"
  /\ ppc = [p \in Producers |-> "idle"]
  /\ pentry = [p \in Producers |-> Sentinel]
  /\ pcalls = [p \in Producers |-> 0]
  /\ nsyncs = 0
  /\ cpc = [c \in Closers |-> "idle"]
  /\ sink = <<>>
  /\ sinkCloseCount = 0
  /\ chanCloseCount = 0
  /\ DroppedLogs = 0
  /\ TotalLogs = 0
  /\ panicked = "no"
  /\ returnedBeforeClose = {}
  /\ enqueuedBeforeClose = {}
  /\ lateCalls = 0

\* No runtime panic has killed the process.
Alive == panicked = "no"

\* The level gate and the closed check at the head of log.
BelowThreshold(lvl) == lvl < level
IsClosed == closed = 1

\* A non-blocking send finds no room when the buffer holds bufferSize entries.
ChanFull(ch) == Len(ch) >= bufferSize

\* A send that puts the entry ahead of the entries already buffered.
ChanSentFront(ch, e) == <<e>> \o ch

\* case l.entryChan <- entry with room: a Go channel is a FIFO queue, the
\* entry goes behind the entries already buffered.
ChanSent(ch, e) == Append(ch, e)

\* A worker that lets its batch grow beyond the capacity before it flushes.
WorkerBatchFullBeyond(b) == Len(b) > WorkerBatchCap

\* worker: if len(batch) >= 100.
WorkerBatchFull(b) == Len(b) >= WorkerBatchCap

\* A flush that writes nothing.
FlushedSinkNothing(b) == sink

\* flushBatch: every entry of the batch is written to the writer, in order.
FlushedSink(b) == sink \o b

\* Entries made so far by all log calls.
RECURSIVE SumCalls(_, _)
SumCalls(f, n) == IF n = 0 THEN 0 ELSE f[n] + SumCalls(f, n - 1)
ncalls == SumCalls(pcalls, NumProducers)
\* Calls made so far: log calls that went past the level gate, and Sync calls.
nused == ncalls + lateCalls + nsyncs

\* Producers are interchangeable: producer p + 1 makes its first call after
\* producer p has made one; closers likewise.
ProducerTurn(p) == IF p = 1 THEN TRUE ELSE pcalls[p - 1] > 0
CloserTurn(c) == IF c = 1 THEN TRUE ELSE cpc[c - 1] # "idle"

\* log, up to the select: the level gate (line 167) and the closed check
\* (line 171) return with no effect on the logger; otherwise the entry is built
\* (the hooks fired for it, lines 201-206, leave the logger's state alone).
LogEnter(p, lvl) ==
  /\ Alive
  /\ ppc[p] = "idle"
  /\ ProducerTurn(p)
  /\ IF BelowThreshold(lvl)
       THEN UNCHANGED <<ppc, pentry, pcalls, lateCalls>>
       ELSE IF IsClosed
         THEN /\ nused < MaxCalls
              /\ lateCalls' = lateCalls + 1
              /\ UNCHANGED <<ppc, pentry, pcalls>>
         ELSE /\ nused < MaxCalls
              /\ pcalls' = [pcalls EXCEPT ![p] = @ + 1]
              /\ ppc' = [ppc EXCEPT ![p] = "send"]
              /\ pentry' = [pentry EXCEPT ![p] = LogEntry(lvl, p, pcalls[p] + 1)]
              /\ UNCHANGED lateCalls
  /\ UNCHANGED <<bvars, cvars, wvars, svars, fvars, mvars, pvars, level, workerCount, bufferSize, entryChan, chanClosed, closed, ctxDone,
                 tickerStopped, wpc, wbatch, fpc, nsyncs, cpc,
                 sink, sinkCloseCount, chanCloseCount, DroppedLogs, TotalLogs,
                 panicked, returnedBeforeClose, enqueuedBeforeClose>>

\* log, the select with a default: a send on a closed channel panics, a send
\* with room enqueues, a send without room drops and counts.
LogSend(p) ==
  /\ Alive
  /\ ppc[p] = "send"
  /\ ppc' = [ppc EXCEPT ![p] = "idle"]
  /\ IF chanClosed
       THEN /\ panicked' = "send on closed channel"
            /\ UNCHANGED <<entryChan, DroppedLogs, returnedBeforeClose,
                           enqueuedBeforeClose>>
       ELSE /\ returnedBeforeClose' =
                 IF IsClosed THEN returnedBeforeClose
                             ELSE returnedBeforeClose \cup {pentry[p]}
            /\ UNCHANGED panicked
            /\ IF ChanFull(entryChan)
                 THEN /\ DroppedLogs' = DroppedLogs + 1
                      /\ UNCHANGED <<entryChan, enqueuedBeforeClose>>
                 ELSE /\ entryChan' = ChanSent(entryChan, pentry[p])
                      /\ enqueuedBeforeClose' =
                           IF IsClosed THEN enqueuedBeforeClose
                                       ELSE enqueuedBeforeClose \cup {pentry[p]}
                      /\ UNCHANGED DroppedLogs
  /\ UNCHANGED <<bvars, cvars, wvars, svars, fvars, mvars, pvars, lateCalls, level, workerCount, bufferSize, chanClosed, closed, ctxDone,
                 tickerStopped, wpc, wbatch, fpc, pentry, pcalls, nsyncs, cpc,
                 sink, sinkCloseCount, chanCloseCount, TotalLogs>>

\* worker, case entry, ok := <-l.entryChan with ok: the oldest entry joins the
\* worker's batch; a batch of WorkerBatchCap entries is flushed and emptied.
WorkerRecv(w) ==
  /\ Alive
  /\ wpc[w] = "run"
  /\ entryChan # <<>>
  /\ entryChan' = Tail(entryChan)
  /\ TotalLogs' = TotalLogs + 1
  /\ LET b == Append(wbatch[w], Head(entryChan))
     IN  IF WorkerBatchFull(b)
           THEN /\ sink' = FlushedSink(b)
                /\ wbatch' = [wbatch EXCEPT ![w] = <<>>]
           ELSE /\ wbatch' = [wbatch EXCEPT ![w] = b]
                /\ UNCHANGED sink
  /\ UNCHANGED <<bvars, cvars, wvars, svars, fvars, mvars, pvars, lateCalls, level, workerCount, bufferSize, chanClosed, closed, ctxDone, tickerStopped, wpc, fpc, ppc, pentry, pcalls, nsyncs,
                 cpc, sinkCloseCount, chanCloseCount, DroppedLogs, panicked,
                 returnedBeforeClose, enqueuedBeforeClose>>

\* The last flush of a worker that returns: flushBatch if the batch is not empty.
WorkerExit(w) ==
  /\ wpc' = [wpc EXCEPT ![w] = "done"]
  /\ IF wbatch[w] # <<>>
       THEN sink' = FlushedSink(wbatch[w])
       ELSE UNCHANGED sink
  /\ UNCHANGED <<bvars, cvars, wvars, svars, fvars, mvars, pvars, lateCalls, level, workerCount, bufferSize, entryChan, chanClosed, closed, ctxDone,
                 tickerStopped, wbatch, fpc, ppc, pentry,
                 pcalls, nsyncs, cpc, sinkCloseCount, chanCloseCount,
                 DroppedLogs, TotalLogs, panicked, returnedBeforeClose, enqueuedBeforeClose>>

\* worker, case <-l.entryChan with !ok: the channel is closed and drained.
WorkerChanClosed(w) ==
  /\ Alive
  /\ wpc[w] = "run"
  /\ chanClosed
  /\ entryChan = <<>>
  /\ WorkerExit(w)

\* The select of the worker takes the case <-l.ctx.Done() once it is ready,
\* whatever the channel still holds.
CtxDoneReady(w) == ctxDone

\* worker, case <-l.ctx.Done().
WorkerCtxDone(w) ==
  /\ Alive
  /\ wpc[w] = "run"
  /\ CtxDoneReady(w)
  /\ WorkerExit(w)

\* worker, case <-ticker.C (the 10 ms idle timer) with a non-empty batch.
WorkerTick(w) ==
  /\ Alive
  /\ wpc[w] = "run"
  /\ wbatch[w] # <<>>
  /\ sink' = FlushedSink(wbatch[w])
  /\ wbatch' = [wbatch EXCEPT ![w] = <<>>]
  /\ UNCHANGED <<bvars, cvars, wvars, svars, fvars, mvars, pvars, lateCalls, level, workerCount, bufferSize, entryChan, chanClosed, closed, ctxDone,
                 tickerStopped, wpc, fpc, ppc, pentry,
                 pcalls, nsyncs, cpc, sinkCloseCount, chanCloseCount,
                 DroppedLogs, TotalLogs, panicked, returnedBeforeClose, enqueuedBeforeClose>>

\* flushLoop, case <-l.flushTicker.C: a tick is delivered while the ticker is
\* not stopped, and flushLoop is about to call Sync.
FlushLoopTick ==
  /\ Alive
  /\ fpc = "select"
  /\ ~tickerStopped
  /\ nused < MaxCalls
  /\ nsyncs' = nsyncs + 1
  /\ fpc' = "sync"
  /\ UNCHANGED <<bvars, cvars, wvars, svars, fvars, mvars, pvars, lateCalls, level, workerCount, bufferSize, entryChan, chanClosed, closed, ctxDone,
                 tickerStopped, wpc, wbatch, ppc, pentry, pcalls, cpc, sink,
                 sinkCloseCount, chanCloseCount, DroppedLogs, TotalLogs,
                 panicked, returnedBeforeClose, enqueuedBeforeClose>>

\* Sync: a non-blocking send of the marker entry, then writer.Flush().
Sync ==
  IF chanClosed
    THEN /\ panicked' = "send on closed channel"
         /\ UNCHANGED entryChan
    ELSE /\ entryChan' = IF ChanFull(entryChan) THEN entryChan
                                                ELSE Append(entryChan, Sentinel)
         /\ UNCHANGED panicked

\* flushLoop runs l.Sync() and returns to its select.
FlushLoopSync ==
  /\ Alive
  /\ fpc = "sync"
  /\ Sync
  /\ fpc' = "select"
  /\ UNCHANGED <<bvars, cvars, wvars, svars, fvars, mvars, pvars, lateCalls, level, workerCount, bufferSize, chanClosed, closed, ctxDone, tickerStopped, wpc, wbatch, ppc, pentry, pcalls, nsyncs,
                 cpc, sink, sinkCloseCount, chanCloseCount, DroppedLogs,
                 TotalLogs, returnedBeforeClose, enqueuedBeforeClose>>

\* A call of Sync by a user of the logger: it returns when its send attempt
\* and writer.Flush() are done.
SyncCall ==
  /\ Alive
  /\ nused < MaxCalls
  /\ nsyncs' = nsyncs + 1
  /\ Sync
  /\ UNCHANGED <<bvars, cvars, wvars, svars, fvars, mvars, pvars, lateCalls, level, workerCount, bufferSize, chanClosed, closed, ctxDone, tickerStopped, wpc, wbatch, fpc, ppc, pentry, pcalls,
                 cpc, sink, sinkCloseCount, chanCloseCount, DroppedLogs,
                 TotalLogs, returnedBeforeClose, enqueuedBeforeClose>>

\* flushLoop, case <-l.ctx.Done().
FlushLoopDone ==
  /\ Alive
  /\ fpc = "select"
  /\ ctxDone
  /\ fpc' = "done"
  /\ UNCHANGED <<bvars, cvars, wvars, svars, fvars, mvars, pvars, lateCalls, level, workerCount, bufferSize, entryChan, chanClosed, closed, ctxDone,
                 tickerStopped, wpc, wbatch, ppc, pentry,
                 pcalls, nsyncs, cpc, sink, sinkCloseCount, chanCloseCount,
                 DroppedLogs, TotalLogs, panicked, returnedBeforeClose, enqueuedBeforeClose>>

\* A guard that lets every caller of Close through.
CompareAndSwapAlways == TRUE

\* atomic.CompareAndSwapInt32(&l.closed, 0, 1) succeeds when the flag is 0.
CompareAndSwapClosed == closed = 0

\* Close, the guard: the first caller goes on, every other returns nil.
CloseCAS(c) ==
  /\ Alive
  /\ cpc[c] = "idle"
  /\ CloserTurn(c)
  /\ IF CompareAndSwapClosed
       THEN /\ closed' = 1
            /\ cpc' = [cpc EXCEPT ![c] = "cancel"]
       ELSE /\ cpc' = [cpc EXCEPT ![c] = "returned"]
            /\ UNCHANGED closed
  /\ UNCHANGED <<bvars, cvars, wvars, svars, fvars, mvars, pvars, lateCalls, level, workerCount, bufferSize, entryChan, chanClosed, ctxDone,
                 tickerStopped, wpc, wbatch, fpc, ppc, pentry, pcalls, nsyncs, sink, sinkCloseCount, chanCloseCount,
                 DroppedLogs, TotalLogs, panicked, returnedBeforeClose, enqueuedBeforeClose>>

\* Close: l.flushTicker.Stop(); l.cancel().
CloseCancel(c) ==
  /\ Alive
  /\ cpc[c] = "cancel"
  /\ tickerStopped' = TRUE
  /\ ctxDone' = TRUE
  /\ cpc' = [cpc EXCEPT ![c] = "closechan"]
  /\ UNCHANGED <<bvars, cvars, wvars, svars, fvars, mvars, pvars, lateCalls, level, workerCount, bufferSize, entryChan, chanClosed, closed, wpc,
                 wbatch, fpc, ppc, pentry, pcalls, nsyncs, sink,
                 sinkCloseCount, chanCloseCount, DroppedLogs, TotalLogs,
                 panicked, returnedBeforeClose, enqueuedBeforeClose>>

\* Close: close(l.entryChan); closing a closed channel panics.
CloseChan(c) ==
  /\ Alive
  /\ cpc[c] = "closechan"
  /\ cpc' = [cpc EXCEPT ![c] = "wait"]
  /\ IF chanClosed
       THEN /\ panicked' = "close of closed channel"
            /\ UNCHANGED <<chanClosed, chanCloseCount>>
       ELSE /\ chanClosed' = TRUE
            /\ chanCloseCount' = chanCloseCount + 1
            /\ UNCHANGED panicked
  /\ UNCHANGED <<bvars, cvars, wvars, svars, fvars, mvars, pvars, lateCalls, level, workerCount, bufferSize, entryChan, closed, ctxDone, tickerStopped, wpc, wbatch, fpc, ppc, pentry, pcalls,
                 nsyncs, sink, sinkCloseCount, DroppedLogs, TotalLogs, returnedBeforeClose, enqueuedBeforeClose>>

\* A wait that does not wait for the workers.
WaitGroupDoneAtOnce == TRUE

\* l.wg.Wait() returns when every worker has called wg.Done().
WaitGroupDone == \A w \in Workers : wpc[w] # "run"

\* Close: l.wg.Wait(); return l.writer.Close().
CloseWait(c) ==
  /\ Alive
  /\ cpc[c] = "wait"
  /\ WaitGroupDone
  /\ sinkCloseCount' = sinkCloseCount + 1
  /\ cpc' = [cpc EXCEPT ![c] = "closed"]
  /\ UNCHANGED <<bvars, cvars, wvars, svars, fvars, mvars, pvars, lateCalls, level, workerCount, bufferSize, entryChan, chanClosed, closed, ctxDone,
                 tickerStopped, wpc, wbatch, fpc, ppc, pentry, pcalls, nsyncs,
                 sink, chanCloseCount, DroppedLogs, TotalLogs, panicked,
                 returnedBeforeClose, enqueuedBeforeClose>>

(***************************************************************************)
(* Batcher: BatchWriter                                                    *)
(***************************************************************************)

\* The goroutines that use the BatchWriter: callers of WriteEntry, a caller of
\* Flush, the flushLoop goroutine, callers of Close.
WriterProc(w) == <<"writer", w>>
FlusherProc == <<"flusher", 0>>
LoopProc == <<"flushLoop", 0>>
CloserProc(c) == <<"closer", c>>
NoProc == <<"none", 0>>
BProcs == {WriterProc(w) : w \in Writers} \cup {FlusherProc, LoopProc}
            \cup {CloserProc(c) : c \in Closers}

\* The sinks explored: one that never fails, those that fail their first one,
\* two or three write calls, one that fails its second write call only.
FailPlans == {{}, {1}, {1, 2}, {1, 2, 3}, {2}}

\* NewBatchWriter: an empty buffer, zero metrics, the flush goroutine started.
NewBatchWriter(bs, mr, plan) ==
  /\ bwBatchSize = bs
  /\ bwMaxRetries = mr
  /\ failPlan = plan
  /\ bwBatch = <<>>
  /\ bwMu = NoProc
  /\ bwClosed = 0
  /\ bwCtxDone = FALSE
  /\ bpc = [q \in BProcs |-> IF q = LoopProc THEN "select" ELSE "idle"]
  /\ flBatch = <<>>
  /\ flRetries = 0
  /\ sinkCalls = 0
  /\ bwSink = <<>>
  /\ bwSinkCloseCount = 0
  /\ TotalBatches = 0
  /\ TotalEntries = 0
  /\ FailedBatches = 0
  /\ RetryCount = 0
  /\ bwReturn = <<NoProc, "none">>
  /\ wcalls = [w \in Writers |-> 0]
  /\ wroteBeforeClose = {}
  /\ deliveredEntries = {}
  /\ discardedEntries = {}

\* IsClosed of the BatchWriter: atomic.LoadInt32(&bw.closed) == 1.
BwIsClosed == bwClosed = 1

\* A flush that waits until the buffer has gone beyond BatchSize.
BatchFullBeyond(b) == Len(b) > bwBatchSize

\* WriteEntry flushes when the buffer has reached BatchSize entries.
BatchFull(b) == Len(b) >= bwBatchSize

\* A loop that never retries, and one that retries once too often.
RetryAllowedNever(retries) == retries < 1
RetryAllowedOneMore(retries) == retries <= bwMaxRetries + 1

\* flushBatch goes on calling writeBatch while retries <= MaxRetries.
RetryAllowed(retries) == retries <= bwMaxRetries

\* writeBatch: the entries go to the sink one write call each, in order, from
\* call number calls + 1 on; the first call that fails ends the attempt.
\* FailAt is the position in the batch of that entry, 0 if every call succeeds.
FailAt(b, calls) ==
  LET bad == {i \in 1..Len(b) : (calls + i) \in failPlan}
  IN  IF bad = {} THEN 0 ELSE CHOOSE i \in bad : \A j \in bad : i <= j

\* A copy that misses the newest entry of the buffer.
CopyBatchShort(b) == SubSeq(b, 1, Len(b) - 1)

\* flushUnsafe: the copy of the buffer that is handed to flushBatch.
CopyBatch(b) == b

\* A flushUnsafe that leaves the buffer as it was.
ClearedBatchKept(b) == b

\* flushUnsafe: bw.batch = bw.batch[:0].
ClearedBatch(b) == <<>>

\* The return of WriteEntry, Flush or Close to its caller.
Return(q, res) == bwReturn' = <<q, res>>

\* Writers are interchangeable: writer w + 1 makes its first call after
\* writer w has made one.
WriterTurn(w) == IF w = 1 THEN TRUE ELSE wcalls[w - 1] > 0

\* Entries made so far by all WriteEntry calls.
nwrites == SumCalls(wcalls, NumWriters)

\* WriteEntry, the closed check: ErrWriterClosed, or on to bw.mu.Lock().
WriteEntryEnter(w) ==
  /\ bpc[WriterProc(w)] = "idle"
  /\ WriterTurn(w)
  /\ IF BwIsClosed
       THEN /\ Return(WriterProc(w), "ErrWriterClosed")
            /\ UNCHANGED <<bpc, wcalls>>
       ELSE /\ nwrites < MaxWrites
            /\ wcalls' = [wcalls EXCEPT ![w] = @ + 1]
            /\ bpc' = [bpc EXCEPT ![WriterProc(w)] = "lock"]
            /\ UNCHANGED bwReturn
  /\ UNCHANGED <<dvars, cvars, wvars, svars, fvars, mvars, pvars, deliveredEntries, discardedEntries, bwBatchSize, bwMaxRetries, failPlan, bwBatch, bwMu,
                 bwClosed, bwCtxDone, flBatch, flRetries,
                 sinkCalls, bwSink, bwSinkCloseCount, TotalBatches,
                 TotalEntries, FailedBatches, RetryCount, wroteBeforeClose>>

\* WriteEntry under the lock: append, count, and with a full buffer
\* flushUnsafe (copy and clear) and on to flushBatch; otherwise return nil.
WriteEntryAppend(w) ==
  /\ bpc[WriterProc(w)] = "lock"
  /\ bwMu = NoProc
  /\ TotalEntries' = TotalEntries + 1
  /\ LET e == [src |-> w, seq |-> wcalls[w]]
         b == Append(bwBatch, e)
     IN  IF BatchFull(b)
           THEN /\ bwMu' = WriterProc(w)
                /\ flBatch' = CopyBatch(b)
                /\ bwBatch' = ClearedBatch(b)
                /\ flRetries' = 0
                /\ bpc' = [bpc EXCEPT ![WriterProc(w)] = "writeflush"]
                /\ UNCHANGED <<bwReturn, wroteBeforeClose>>
           ELSE /\ bwBatch' = b
                /\ bpc' = [bpc EXCEPT ![WriterProc(w)] = "idle"]
                /\ Return(WriterProc(w), "nil")
                /\ wroteBeforeClose' =
                     IF BwIsClosed THEN wroteBeforeClose
                                   ELSE wroteBeforeClose \cup {e}
                /\ UNCHANGED <<bwMu, flBatch, flRetries>>
  /\ UNCHANGED <<dvars, cvars, wvars, svars, fvars, mvars, pvars, deliveredEntries, discardedEntries, bwBatchSize, bwMaxRetries, failPlan, bwClosed,
                 bwCtxDone, sinkCalls, bwSink,
                 bwSinkCloseCount, TotalBatches, FailedBatches, RetryCount,
                 wcalls>>

\* Flush and flushUnsafe, called by q with the lock free: an empty buffer
\* returns nil at once and q goes to position pcEmpty; otherwise the buffer
\* is copied and cleared and q goes on to flushBatch at position pcFlush.
LockAndFlush(q, pcFlush, pcEmpty) ==
  /\ bwMu = NoProc
  /\ IF bwBatch = <<>>
       THEN /\ bpc' = [bpc EXCEPT ![q] = pcEmpty]
            /\ Return(q, "nil")
            /\ UNCHANGED <<bwMu, flBatch, bwBatch, flRetries>>
       ELSE /\ bwMu' = q
            /\ flBatch' = CopyBatch(bwBatch)
            /\ bwBatch' = ClearedBatch(bwBatch)
            /\ flRetries' = 0
            /\ bpc' = [bpc EXCEPT ![q] = pcFlush]
            /\ UNCHANGED bwReturn
  /\ UNCHANGED <<dvars, cvars, wvars, svars, fvars, mvars, pvars, deliveredEntries, discardedEntries, bwBatchSize, bwMaxRetries, failPlan, bwClosed,
                 bwCtxDone, sinkCalls, bwSink,
                 bwSinkCloseCount, TotalBatches, TotalEntries, FailedBatches,
                 RetryCount, wcalls, wroteBeforeClose>>

\* An explicit call of Flush, with a buffer that holds entries or none.
FlushCall ==
  /\ bpc[FlusherProc] = "idle"
  /\ LockAndFlush(FlusherProc, "flush", "idle")

\* flushLoop, case <-ticker.C: bw.Flush().
LoopTick ==
  /\ bpc[LoopProc] = "select"
  /\ bwBatch # <<>>
  /\ LockAndFlush(LoopProc, "flush", "select")

\* flushLoop, case <-bw.ctx.Done(): the final bw.Flush(), then return.
LoopCtxDone ==
  /\ bpc[LoopProc] = "select"
  /\ bwCtxDone
  /\ LockAndFlush(LoopProc, "finalflush", "done")

\* A Flush that hides the error of its flushBatch from its caller.
AfterFlushSwallowed(q, res) ==
  IF q = LoopProc
    THEN /\ bpc' = [bpc EXCEPT ![q] = IF bpc[q] = "finalflush" THEN "done"
                                                                ELSE "select"]
         /\ UNCHANGED bwReturn
    ELSE IF q[1] = "closer"
      THEN IF res = "nil"
             THEN /\ bpc' = [bpc EXCEPT ![q] = "sinkclose"]
                  /\ UNCHANGED bwReturn
             ELSE /\ bpc' = [bpc EXCEPT ![q] = "failed"]
                  /\ Return(q, res)
      ELSE /\ bpc' = [bpc EXCEPT ![q] = "idle"]
           /\ Return(q, "nil")

\* Where q goes when its flushBatch has returned res, and what its call
\* returns: WriteEntry and Flush return res; flushLoop drops it; Close
\* returns an error at once and goes on to writer.Close() otherwise.
AfterFlush(q, res) ==
  IF q = LoopProc
    THEN /\ bpc' = [bpc EXCEPT ![q] = IF bpc[q] = "finalflush" THEN "done"
                                                                ELSE "select"]
         /\ UNCHANGED bwReturn
    ELSE IF q[1] = "closer"
      THEN IF res = "nil"
             THEN /\ bpc' = [bpc EXCEPT ![q] = "sinkclose"]
                  /\ UNCHANGED bwReturn
             ELSE /\ bpc' = [bpc EXCEPT ![q] = "failed"]
                  /\ Return(q, res)
      ELSE /\ bpc' = [bpc EXCEPT ![q] = "idle"]
           /\ Return(q, res)

\* One turn of the loop of flushBatch, by the holder of the lock: writeBatch,
\* then success (TotalBatches, return nil), or a failure (RetryCount, retries)
\* followed by another turn or, retries exhausted, FailedBatches and the error.
\* An empty batch returns nil before the loop. The lock is released when the
\* caller of flushBatch returns (the deferred Unlock of WriteEntry and Flush).
FlushAttempt(q) ==
  /\ bpc[q] \in {"writeflush", "flush", "finalflush"}
  /\ bwMu = q
  /\ LET i == FailAt(flBatch, sinkCalls)
         mine == IF bpc[q] = "writeflush" /\ ~BwIsClosed
                   THEN {[src |-> q[2], seq |-> wcalls[q[2]]]}
                   ELSE {}
     IN  IF flBatch = <<>>
           THEN /\ bwMu' = NoProc
                /\ AfterFlush(q, "nil")
                /\ wroteBeforeClose' = wroteBeforeClose \cup mine
                /\ UNCHANGED <<bwSink, sinkCalls, TotalBatches, RetryCount,
                               FailedBatches, flBatch, flRetries,
                               deliveredEntries, discardedEntries>>
         ELSE IF i = 0
           THEN /\ bwSink' = bwSink \o flBatch
                /\ sinkCalls' = sinkCalls + Len(flBatch)
                /\ TotalBatches' = TotalBatches + 1
                /\ bwMu' = NoProc
                /\ flBatch' = <<>>
                /\ flRetries' = 0
                /\ AfterFlush(q, "nil")
                /\ wroteBeforeClose' = wroteBeforeClose \cup mine
                /\ deliveredEntries' = deliveredEntries \cup Range(flBatch)
                /\ UNCHANGED <<RetryCount, FailedBatches, discardedEntries>>
           ELSE /\ bwSink' = bwSink \o SubSeq(flBatch, 1, i - 1)
                /\ sinkCalls' = sinkCalls + i
                /\ RetryCount' = RetryCount + 1
                /\ IF RetryAllowed(flRetries + 1)
                     THEN /\ flRetries' = flRetries + 1
                          /\ UNCHANGED <<bwMu, bpc, bwReturn, FailedBatches,
                                         flBatch, discardedEntries>>
                     ELSE /\ FailedBatches' = FailedBatches + 1
                          /\ bwMu' = NoProc
                          /\ flBatch' = <<>>
                          /\ flRetries' = 0
                          /\ discardedEntries' =
                               discardedEntries \cup Range(flBatch)
                          /\ AfterFlush(q, "err")
                /\ UNCHANGED <<TotalBatches, wroteBeforeClose, deliveredEntries>>
  /\ UNCHANGED <<dvars, cvars, wvars, svars, fvars, mvars, pvars, bwBatchSize, bwMaxRetries, failPlan, bwBatch, bwClosed,
                 bwCtxDone, bwSinkCloseCount, TotalEntries, wcalls>>

\* A guard that lets every caller of the Batcher's Close through.
BwCompareAndSwapAlways == TRUE

\* atomic.CompareAndSwapInt32(&bw.closed, 0, 1) succeeds when the flag is 0.
BwCompareAndSwapClosed == bwClosed = 0

\* Close, the guard and bw.cancel(): the first caller goes on, others return nil.
BwCloseCAS(c) ==
  /\ bpc[CloserProc(c)] = "idle"
  /\ IF c = 1 THEN TRUE ELSE bpc[CloserProc(c - 1)] # "idle"
  /\ IF BwCompareAndSwapClosed
       THEN /\ bwClosed' = 1
            /\ bwCtxDone' = TRUE
            /\ bpc' = [bpc EXCEPT ![CloserProc(c)] = "wait"]
            /\ UNCHANGED bwReturn
       ELSE /\ bpc' = [bpc EXCEPT ![CloserProc(c)] = "returned"]
            /\ Return(CloserProc(c), "nil")
            /\ UNCHANGED <<bwClosed, bwCtxDone>>
  /\ UNCHANGED <<dvars, cvars, wvars, svars, fvars, mvars, pvars, deliveredEntries, discardedEntries, bwBatchSize, bwMaxRetries, failPlan, bwBatch, bwMu,
                 flBatch, flRetries, sinkCalls, bwSink,
                 bwSinkCloseCount, TotalBatches, TotalEntries, FailedBatches,
                 RetryCount, wcalls, wroteBeforeClose>>

\* Close: bw.wg.Wait() returns when flushLoop has returned; then bw.Flush().
BwCloseFlush(c) ==
  /\ bpc[CloserProc(c)] = "wait"
  /\ bpc[LoopProc] = "done"
  /\ LockAndFlush(CloserProc(c), "flush", "sinkclose")

\* Close: bw.writer.Close() is called, with bw.mu not held.
BwCloseSink(c) ==
  /\ bpc[CloserProc(c)] = "sinkclose"
  /\ bwSinkCloseCount' = bwSinkCloseCount + 1
  /\ bpc' = [bpc EXCEPT ![CloserProc(c)] = "sinkclosing"]
  /\ UNCHANGED <<dvars, cvars, wvars, svars, fvars, mvars, pvars, deliveredEntries, discardedEntries, bwBatchSize, bwMaxRetries, failPlan, bwBatch, bwMu,
                 bwClosed, bwCtxDone, flBatch, flRetries,
                 sinkCalls, bwSink, TotalBatches, TotalEntries, FailedBatches,
                 RetryCount, bwReturn, wcalls, wroteBeforeClose>>

\* Close: bw.writer.Close() returns and Close returns its result.
BwCloseSinkReturn(c) ==
  /\ bpc[CloserProc(c)] = "sinkclosing"
  /\ bpc' = [bpc EXCEPT ![CloserProc(c)] = "closed"]
  /\ Return(CloserProc(c), "nil")
  /\ UNCHANGED <<dvars, cvars, wvars, svars, fvars, mvars, pvars, deliveredEntries, discardedEntries, bwBatchSize, bwMaxRetries, failPlan, bwBatch, bwMu,
                 bwClosed, bwCtxDone, flBatch, flRetries,
                 sinkCalls, bwSink, bwSinkCloseCount, TotalBatches,
                 TotalEntries, FailedBatches, RetryCount, wcalls,
                 wroteBeforeClose>>

NextBatcher ==
  \/ \E w \in Writers : WriteEntryEnter(w)
  \/ \E w \in Writers : WriteEntryAppend(w)
  \/ FlushCall
  \/ LoopTick
  \/ LoopCtxDone
  \/ \E q \in BProcs : FlushAttempt(q)
  \/ \E c \in Closers : BwCloseCAS(c)
  \/ \E c \in Closers : BwCloseFlush(c)
  \/ \E c \in Closers : BwCloseSink(c)
  \/ \E c \in Closers : BwCloseSinkReturn(c)

(***************************************************************************)
(* Facade: CoreLogger and AdvancedLogger                                   *)
(***************************************************************************)

\* Goroutines that call the loggers, and the loggers: logger 1 is the one the
\* constructor made, the others are made by WithField.
Callers == 1..NumCallers
Loggers == 1..MaxCoreOps
\* The levels of the log calls and of the SetLevel calls explored.
SetLevels == {LevelDebug, LevelWarn}
\* Field keys; a value is the number of the logger whose derivation added it
\* (values are interchangeable), NoValue marks a key that a map does not hold.
Keys == {"user_id", "request_id"}
NoValue == 0
\* make(map[string]interface{}): the empty field map.
EmptyFields == [k \in Keys |-> NoValue]
\* The constructed logger is a CoreLogger or an AdvancedLogger.
Variants == {"core", "advanced"}
\* Hook lists explored: each hook has its Levels() and whether Fire fails.
HookConfigs ==
  { <<>>,
    <<[levels |-> {}, fails |-> TRUE]>>,
    <<[levels |-> {LevelInfo}, fails |-> TRUE], [levels |-> {}, fails |-> FALSE]>>,
    <<[levels |-> {LevelDebug}, fails |-> FALSE],
      [levels |-> {LevelDebug, LevelInfo}, fails |-> FALSE]>> }

\* The entry of a caller that is not inside log.
NoEntry == [level |-> 0, thr |-> 0, logger |-> 0, fields |-> EmptyFields]

\* NewCoreLogger / NewAdvancedLogger: the level, an empty field map, the hooks
\* of the options; no logger derived yet.
NewCoreLogger(variant, metrics, filter, sampler, hooks, fails) ==
  /\ clVariant = variant
  /\ clMetrics = metrics
  /\ clFilter = filter
  /\ clSampler = sampler
  /\ clSamplerCalls = 0
  /\ clRejects = [filter |-> 0, sampler |-> 0]
  /\ clHooks = hooks
  /\ clWriterFails = fails
  /\ clCount = 1
  /\ clLevel = [lg \in Loggers |-> IF lg = 1 THEN LevelInfo ELSE 0]
  /\ clFields = [lg \in Loggers |-> EmptyFields]
  /\ clParent = [lg \in Loggers |-> 0]
  /\ clAdded = [lg \in Loggers |-> <<"", NoValue>>]
  /\ kpc = [k \in Callers |-> "idle"]
  /\ kentry = [k \in Callers |-> NoEntry]
  /\ kfired = [k \in Callers |-> [h \in 1..Len(hooks) |-> 0]]
  /\ clSink = <<>>
  /\ clErrorCount = 0
  /\ clDroppedCount = 0
  /\ clTotalLogs = 0
  /\ clWriteErrors = 0
  /\ clHookErrors = 0
  /\ nops = 0

\* WithField returns a *CoreLogger whatever the receiver is: only the
\* constructed logger can be an AdvancedLogger.
LoggerKind(lg) == IF lg = 1 THEN clVariant ELSE "core"
\* The metrics of an AdvancedLogger are recorded when al.metrics != nil.
Recording(lg) == LoggerKind(lg) = "advanced" /\ clMetrics

\* A gate that lets every level through.
CoreBelowThresholdNever(lvl, thr) == FALSE

\* log: if level < l.level { return }.
CoreBelowThreshold(lvl, thr) == lvl < thr

\* A hook with no levels that fires for none.
ShouldFireHookEmptyNone(hook, lvl) == lvl \in hook.levels

\* shouldFireHook: an empty Levels() means every level.
ShouldFireHook(hook, lvl) == hook.levels = {} \/ lvl \in hook.levels

\* A derivation that keeps the added field only.
MergeFieldAlone(f, key, v) == [EmptyFields EXCEPT ![key] = v]

\* WithField: a new map with the receiver's fields, then newFields[key] = value.
MergeField(f, key, v) == [f EXCEPT ![key] = v]

\* The hooks fired for an entry of level lvl, and those whose Fire fails.
FiredHooks(lvl) == {h \in 1..Len(clHooks) : ShouldFireHook(clHooks[h], lvl)}
FailedHooks(lvl) == {h \in FiredHooks(lvl) : clHooks[h].fails}

\* Callers are interchangeable: caller k + 1 starts after caller k.
CallerTurn(k) == IF k = 1 THEN TRUE ELSE kpc[k - 1] # "idle"

\* A pipeline that consults the sampler whatever the filter has said.
SamplerConsultedAlways(lg, filtered) ==
  LoggerKind(lg) = "advanced" /\ clSampler

\* AdvancedLogger.log reaches al.sampler.ShouldSample when a sampler is set
\* and the filter has not made the call return.
SamplerConsulted(lg, filtered) ==
  LoggerKind(lg) = "advanced" /\ clSampler /\ ~filtered

\* log, up to the hooks: the level gate reads l.level; the entry is built with
\* a copy of the logger's fields; the AdvancedLogger then applies its filter
\* and, if the filter lets the entry through, its sampler (a rejected entry is
\* recorded as dropped), and records the log.
CoreLogGate(k, lg, lvl) ==
  /\ kpc[k] = "idle"
  /\ CallerTurn(k)
  /\ lg <= clCount
  /\ nops < MaxCoreOps
  /\ nops' = nops + 1
  /\ IF CoreBelowThreshold(lvl, clLevel[lg])
       THEN UNCHANGED <<kpc, kentry, kfired, clDroppedCount, clTotalLogs,
                        clSamplerCalls, clRejects>>
       ELSE \E filtered \in BOOLEAN, sampledOut \in BOOLEAN :
              /\ filtered => (LoggerKind(lg) = "advanced" /\ clFilter)
              /\ sampledOut => (SamplerConsulted(lg, filtered) /\ ~filtered)
              /\ clSamplerCalls' = clSamplerCalls
                   + (IF SamplerConsulted(lg, filtered) THEN 1 ELSE 0)
              /\ clRejects' =
                   IF filtered THEN [clRejects EXCEPT !.filter = @ + 1]
                   ELSE IF sampledOut THEN [clRejects EXCEPT !.sampler = @ + 1]
                   ELSE clRejects
              /\ IF filtered \/ sampledOut
                   THEN /\ clDroppedCount' = clDroppedCount
                                               + (IF Recording(lg) THEN 1 ELSE 0)
                        /\ UNCHANGED <<kpc, kentry, kfired, clTotalLogs>>
                   ELSE /\ kentry' = [kentry EXCEPT ![k] =
                                        [level |-> lvl, thr |-> clLevel[lg],
                                         logger |-> lg, fields |-> clFields[lg]]]
                        /\ kfired' = [kfired EXCEPT ![k] =
                                        [h \in 1..Len(clHooks) |-> 0]]
                        /\ kpc' = [kpc EXCEPT ![k] = "hooks"]
                        /\ clTotalLogs' = clTotalLogs
                                            + (IF Recording(lg) THEN 1 ELSE 0)
                        /\ UNCHANGED clDroppedCount
  /\ UNCHANGED <<dvars, bvars, wvars, svars, fvars, mvars, pvars, clSampler, clVariant, clMetrics, clFilter, clHooks,
                 clWriterFails, clCount, clLevel, clFields, clParent, clAdded,
                 clSink, clErrorCount, clWriteErrors, clHookErrors>>

\* log, the loop over l.hooks: every hook that shouldFireHook admits is fired
\* once; the CoreLogger drops the error of Fire, the AdvancedLogger records it
\* when it has metrics.
CoreLogHooks(k) ==
  /\ kpc[k] = "hooks"
  /\ kpc' = [kpc EXCEPT ![k] = "write"]
  /\ LET lvl == kentry[k].level
         lg == kentry[k].logger
     IN  /\ kfired' = [kfired EXCEPT ![k] =
                         [h \in 1..Len(clHooks) |->
                            IF h \in FiredHooks(lvl) THEN 1 ELSE 0]]
         /\ clHookErrors' = clHookErrors + Cardinality(FailedHooks(lvl))
         /\ clErrorCount' = clErrorCount
                              + (IF Recording(lg)
                                   THEN Cardinality(FailedHooks(lvl)) ELSE 0)
  /\ UNCHANGED <<dvars, bvars, wvars, svars, fvars, mvars, pvars, clSampler, clSamplerCalls, clRejects, clVariant, clMetrics, clFilter, clHooks,
                 clWriterFails, clCount, clLevel, clFields, clParent, clAdded,
                 kentry, clSink, clDroppedCount, clTotalLogs, clWriteErrors,
                 nops>>

\* log, the write: WriteStructured(entry); the CoreLogger drops its error, the
\* AdvancedLogger records it when it has metrics. The call returns.
CoreLogWrite(k) ==
  /\ kpc[k] = "write"
  /\ kpc' = [kpc EXCEPT ![k] = "idle"]
  /\ clSink' = Append(clSink, kentry[k])
  /\ kentry' = [kentry EXCEPT ![k] = NoEntry]
  /\ IF clWriterFails
       THEN /\ clWriteErrors' = clWriteErrors + 1
            /\ clErrorCount' = clErrorCount
                                 + (IF Recording(kentry[k].logger) THEN 1 ELSE 0)
       ELSE UNCHANGED <<clWriteErrors, clErrorCount>>
  /\ UNCHANGED <<dvars, bvars, wvars, svars, fvars, mvars, pvars, clSampler, clSamplerCalls, clRejects, clVariant, clMetrics, clFilter, clHooks,
                 clWriterFails, clCount, clLevel, clFields, clParent, clAdded,
                 kfired, clDroppedCount, clTotalLogs, clHookErrors, nops>>

\* WithField (WithFields and WithError likewise): a new CoreLogger with the
\* receiver's writer, level and hooks and its own extended copy of the fields.
CoreWithField(lg, key) ==
  /\ lg <= clCount
  /\ clCount < MaxCoreOps
  /\ nops < MaxCoreOps
  /\ nops' = nops + 1
  /\ clCount' = clCount + 1
  /\ clLevel' = [clLevel EXCEPT ![clCount + 1] = clLevel[lg]]
  /\ clFields' = [clFields EXCEPT ![clCount + 1] = MergeField(clFields[lg], key, clCount + 1)]
  /\ clParent' = [clParent EXCEPT ![clCount + 1] = lg]
  /\ clAdded' = [clAdded EXCEPT ![clCount + 1] = <<key, clCount + 1>>]
  /\ UNCHANGED <<dvars, bvars, wvars, svars, fvars, mvars, pvars, clSampler, clSamplerCalls, clRejects, clVariant, clMetrics, clFilter, clHooks,
                 clWriterFails, kpc, kentry, kfired, clSink, clErrorCount,
                 clDroppedCount, clTotalLogs, clWriteErrors, clHookErrors>>

\* A level held in common by a logger and the loggers derived from it.
LevelSetShared(levels, lg, lvl) ==
  [x \in Loggers |-> IF x = lg THEN lvl
                     ELSE IF clParent[x] = lg THEN lvl ELSE levels[x]]

\* l.level = level: the field of the receiver, a LogLevel held by value.
LevelSet(levels, lg, lvl) == [levels EXCEPT ![lg] = lvl]

\* SetLevel: l.level = level, under the lock.
CoreSetLevel(lg, lvl) ==
  /\ lg <= clCount
  /\ nops < MaxCoreOps
  /\ nops' = nops + 1
  /\ clLevel' = LevelSet(clLevel, lg, lvl)
  /\ UNCHANGED <<dvars, bvars, wvars, svars, fvars, mvars, pvars, clSampler, clSamplerCalls, clRejects, clVariant, clMetrics, clFilter, clHooks,
                 clWriterFails, clCount, clFields, clParent, clAdded, kpc,
                 kentry, kfired, clSink, clErrorCount, clDroppedCount,
                 clTotalLogs, clWriteErrors, clHookErrors>>

NextCore ==
  \/ \E k \in Callers, lg \in Loggers, lvl \in CallLevels : CoreLogGate(k, lg, lvl)
  \/ \E k \in Callers : CoreLogHooks(k)
  \/ \E k \in Callers : CoreLogWrite(k)
  \/ \E lg \in Loggers, key \in Keys : CoreWithField(lg, key)
  \/ \E lg \in Loggers, lvl \in SetLevels : CoreSetLevel(lg, lvl)

(***************************************************************************)
(* BaseWriter under a CoreLogger                                           *)
(***************************************************************************)

\* The goroutines that use the writer: callers of the logger, the flushLoop
\* goroutine, callers of Close.
Goroutines == 1..NumGoroutines
GProc(g) == <<"goroutine", g>>
WsLoopProc == <<"flushLoop", 1>>
WsCloserProc(c) == <<"closer", c>>
WsProcs == {GProc(g) : g \in Goroutines} \cup {WsLoopProc}
             \cup {WsCloserProc(c) : c \in Closers}

\* NewBaseWriter and StartFlushLoop: an empty buffer, an open writer, the
\* flush goroutine running.
NewBaseWriter(bs) ==
  /\ wsBatchSize = bs
  /\ wsBuffer = <<>>
  /\ wsMu = NoProc
  /\ wsClosed = FALSE
  /\ wsStopped = FALSE
  /\ wsOutput = <<>>
  /\ gpc = [q \in WsProcs |-> IF q = WsLoopProc THEN "select" ELSE "idle"]
  /\ gcalls = [g \in Goroutines |-> 0]
  /\ wsRejected = 0

\* Log calls made so far by all goroutines.
nlogcalls == SumCalls(gcalls, NumGoroutines)

\* Goroutines are interchangeable: goroutine g + 1 makes its first call after
\* goroutine g has made one.
GoroutineTurn(g) == IF g = 1 THEN TRUE ELSE gcalls[g - 1] > 0

\* A lock that never makes anyone wait.
WsLockAlwaysFree == TRUE

\* w.mu.Lock() goes through when nobody holds the lock.
WsLockFree == wsMu = NoProc

\* Where a goroutine is when its flushUnsafe has returned and the deferred
\* Unlock has run: the log call has returned, flushLoop is back at its
\* select, Close has returned.
WsAfterFlush(q) ==
  IF q = WsLoopProc THEN "select"
  ELSE IF q[1] = "closer" THEN "closed" ELSE "idle"

\* CoreLogger.log with a level at the threshold: the entry is built and
\* WriteStructured, that is BaseWriter.WriteEntry, is called.
WsLogCall(g) ==
  /\ gpc[GProc(g)] = "idle"
  /\ GoroutineTurn(g)
  /\ nlogcalls < MaxLogCalls
  /\ gcalls' = [gcalls EXCEPT ![g] = @ + 1]
  /\ gpc' = [gpc EXCEPT ![GProc(g)] = "lock"]
  /\ UNCHANGED <<dvars, bvars, cvars, svars, fvars, mvars, pvars, wsBatchSize, wsBuffer, wsMu,
                 wsClosed, wsStopped, wsOutput, wsRejected>>

\* WriteEntry: w.mu.Lock(), and with a closed writer the error (and Unlock).
WsWriteEntryLock(g) ==
  /\ gpc[GProc(g)] = "lock"
  /\ WsLockFree
  /\ IF wsClosed
       THEN /\ wsRejected' = wsRejected + 1
            /\ gpc' = [gpc EXCEPT ![GProc(g)] = "idle"]
            /\ UNCHANGED wsMu
       ELSE /\ wsMu' = GProc(g)
            /\ gpc' = [gpc EXCEPT ![GProc(g)] = "append"]
            /\ UNCHANGED wsRejected
  /\ UNCHANGED <<dvars, bvars, cvars, svars, fvars, mvars, pvars, wsBatchSize, wsBuffer, wsClosed,
                 wsStopped, wsOutput, gcalls>>

\* WriteEntry: the append, then flushUnsafe with a full buffer, or nil.
WsWriteEntryAppend(g) ==
  /\ gpc[GProc(g)] = "append"
  /\ wsBuffer' = Append(wsBuffer, [src |-> g, seq |-> gcalls[g]])
  /\ IF Len(wsBuffer') >= wsBatchSize
       THEN /\ gpc' = [gpc EXCEPT ![GProc(g)] = "flush"]
            /\ UNCHANGED wsMu
       ELSE /\ gpc' = [gpc EXCEPT ![GProc(g)] = "idle"]
            /\ wsMu' = NoProc
  /\ UNCHANGED <<dvars, bvars, cvars, svars, fvars, mvars, pvars, wsBatchSize, wsClosed, wsStopped,
                 wsOutput, gcalls, wsRejected>>

\* flushUnsafe: nil for an empty buffer; otherwise every entry of the buffer
\* is formatted and written to the output, in order.
WsFlushOutput(q) ==
  /\ gpc[q] = "flush"
  /\ IF wsBuffer = <<>>
       THEN /\ gpc' = [gpc EXCEPT ![q] = WsAfterFlush(q)]
            /\ wsMu' = NoProc
            /\ UNCHANGED wsOutput
       ELSE /\ wsOutput' = wsOutput \o wsBuffer
            /\ gpc' = [gpc EXCEPT ![q] = "clear"]
            /\ UNCHANGED wsMu
  /\ UNCHANGED <<dvars, bvars, cvars, svars, fvars, mvars, pvars, wsBatchSize, wsBuffer, wsClosed,
                 wsStopped, gcalls, wsRejected>>

\* flushUnsafe: w.buffer = w.buffer[:0], and the return with its Unlock.
WsFlushClear(q) ==
  /\ gpc[q] = "clear"
  /\ wsBuffer' = <<>>
  /\ wsMu' = NoProc
  /\ gpc' = [gpc EXCEPT ![q] = WsAfterFlush(q)]
  /\ UNCHANGED <<dvars, bvars, cvars, svars, fvars, mvars, pvars, wsBatchSize, wsClosed, wsStopped,
                 wsOutput, gcalls, wsRejected>>

\* flushLoop, case <-ticker.C: w.Flush() takes the lock.
WsLoopTick ==
  /\ gpc[WsLoopProc] = "select"
  /\ WsLockFree
  /\ wsMu' = WsLoopProc
  /\ gpc' = [gpc EXCEPT ![WsLoopProc] = "flush"]
  /\ UNCHANGED <<dvars, bvars, cvars, svars, fvars, mvars, pvars, wsBatchSize, wsBuffer, wsClosed,
                 wsStopped, wsOutput, gcalls, wsRejected>>

\* flushLoop, case <-w.stopChan.
WsLoopStop ==
  /\ gpc[WsLoopProc] = "select"
  /\ wsStopped
  /\ gpc' = [gpc EXCEPT ![WsLoopProc] = "done"]
  /\ UNCHANGED <<dvars, bvars, cvars, svars, fvars, mvars, pvars, wsBatchSize, wsBuffer, wsMu,
                 wsClosed, wsStopped, wsOutput, gcalls, wsRejected>>

\* Close: under the lock, nil for a closed writer; otherwise closed = true,
\* close(w.stopChan), and on to flushUnsafe.
WsClose(c) ==
  /\ gpc[WsCloserProc(c)] = "idle"
  /\ IF c = 1 THEN TRUE ELSE gpc[WsCloserProc(c - 1)] # "idle"
  /\ WsLockFree
  /\ IF wsClosed
       THEN /\ gpc' = [gpc EXCEPT ![WsCloserProc(c)] = "returned"]
            /\ UNCHANGED <<wsMu, wsClosed, wsStopped>>
       ELSE /\ wsMu' = WsCloserProc(c)
            /\ wsClosed' = TRUE
            /\ wsStopped' = TRUE
            /\ gpc' = [gpc EXCEPT ![WsCloserProc(c)] = "flush"]
  /\ UNCHANGED <<dvars, bvars, cvars, svars, fvars, mvars, pvars, wsBatchSize, wsBuffer, wsOutput,
                 gcalls, wsRejected>>

NextBaseWriter ==
  \/ \E g \in Goroutines : WsLogCall(g)
  \/ \E g \in Goroutines : WsWriteEntryLock(g)
  \/ \E g \in Goroutines : WsWriteEntryAppend(g)
  \/ \E q \in WsProcs : WsFlushOutput(q)
  \/ \E q \in WsProcs : WsFlushClear(q)
  \/ WsLoopTick
  \/ WsLoopStop
  \/ \E c \in Closers : WsClose(c)

(***************************************************************************)
(* RateSampler                                                             *)
(***************************************************************************)

\* The values of rand.Float64(), which lie in [0, 1), and the rates, which lie
\* in [0, 1], both in units of 1/DrawResolution.
Draws == 0..(DrawResolution - 1)
Rates == 0..DrawResolution
\* The calls of ShouldSample explored.
MaxSamples == 2

\* NewRateSampler.
NewRateSampler(rate) ==
  /\ rsRate = rate
  /\ rsCounter = 0
  /\ rsDraw = 0
  /\ rsResult = "none"

\* A comparison that lets a draw equal to the rate through.
SampledInclusive(draw, rate) == draw <= rate

\* ShouldSample: rs.rand.Float64() < rs.rate.
Sampled(draw, rate) == draw < rate

\* ShouldSample: the counter, the draw, the comparison.
ShouldSample(draw) ==
  /\ rsCounter < MaxSamples
  /\ rsCounter' = rsCounter + 1
  /\ rsDraw' = draw
  /\ rsResult' = IF Sampled(draw, rsRate) THEN "accept" ELSE "reject"
  /\ UNCHANGED <<dvars, bvars, cvars, wvars, fvars, mvars, pvars, rsRate>>

NextSampler == \E draw \in Draws : ShouldSample(draw)

(***************************************************************************)
(* FieldFilter                                                             *)
(***************************************************************************)

\* Strings, as sequences of characters, up to MaxStrLen long.
Strings == UNION {[1..n -> {"a", "b"}] : n \in 0..MaxStrLen}
\* The values of an interface{}: a string or something else (an int), and for
\* a field of the entry also its absence from entry.Fields.
StringValue(str) == [kind |-> "string", str |-> str]
IntValue == [kind |-> "int", str |-> <<>>]
Absent == [kind |-> "absent", str |-> <<>>]
FieldValues == {StringValue(str) : str \in Strings} \cup {IntValue, Absent}
Operators == {"eq", "ne", "contains", "gt"}

\* NewFieldFilter, and the entry handed to ShouldLog.
NewFieldFilter(op, target, value) ==
  /\ ffOperator = op
  /\ ffTarget = target
  /\ ffValue = value
  /\ ffResult = "none"

\* contains: len(s) >= len(substr) && s[len(s)-len(substr):] == substr.
contains(str, substr) ==
  /\ Len(str) >= Len(substr)
  /\ SubSeq(str, Len(str) - Len(substr) + 1, Len(str)) = substr

\* FieldFilter.ShouldLog as a function of the field's value.
FieldShouldLog(op, target, value) ==
  IF value = Absent THEN FALSE
  ELSE IF op = "eq" THEN value = target
  ELSE IF op = "ne" THEN value # target
  ELSE IF op = "contains"
    THEN IF value.kind = "string"
           THEN IF target.kind = "string"
                  THEN contains(value.str, target.str)
                  ELSE FALSE
           ELSE FALSE
  ELSE TRUE

\* A call of ShouldLog.
ShouldLog ==
  /\ ffResult = "none"
  /\ ffResult' = IF FieldShouldLog(ffOperator, ffTarget, ffValue)
                   THEN "accept" ELSE "reject"
  /\ UNCHANGED <<dvars, bvars, cvars, wvars, svars, mvars, pvars, ffOperator,
                 ffTarget, ffValue>>

(***************************************************************************)
(* MetricsCollector                                                        *)
(***************************************************************************)

\* The goroutines that use the collector.
Recorders == 1..NumRecorders
RecProc(r) == <<"recorder", r>>
GetterProc == <<"getter", 1>>
ResetterProc == <<"resetter", 1>>
MProcs == {RecProc(r) : r \in Recorders} \cup {GetterProc, ResetterProc}
ZeroLevels == [lvl \in CallLevels |-> 0]

\* NewMetricsCollector.
NewMetricsCollector ==
  /\ mcTotalLogs = 0
  /\ mcLogsByLevel = ZeroLevels
  /\ mcWriter = NoProc
  /\ mcReaders = {}
  /\ mpc = [q \in MProcs |-> "idle"]
  /\ mcArg = [r \in Recorders |-> LevelInfo]
  /\ mcSnapshot = [total |-> 0, levels |-> ZeroLevels]
  /\ mcReturned = 0
  /\ mcOps = 0

\* mc.mu.Lock() goes through when nobody holds the lock.
McLockFree == mcWriter = NoProc /\ mcReaders = {}

\* A read lock that never makes anyone wait.
McRLockFreeAlways == TRUE
\* mc.mu.RLock() goes through when nobody holds the lock for writing.
McRLockFree == mcWriter = NoProc

\* RecordLog: mc.mu.Lock().
RecordLogLock(r, lvl) ==
  /\ mpc[RecProc(r)] = "idle"
  /\ IF r = 1 THEN TRUE ELSE mpc[RecProc(r - 1)] # "idle"
  /\ mcOps < MaxMetricOps
  /\ McLockFree
  /\ mcOps' = mcOps + 1
  /\ mcWriter' = RecProc(r)
  /\ mcArg' = [mcArg EXCEPT ![r] = lvl]
  /\ mpc' = [mpc EXCEPT ![RecProc(r)] = "total"]
  /\ UNCHANGED <<dvars, bvars, cvars, wvars, svars, fvars, pvars, mcTotalLogs,
                 mcLogsByLevel, mcReaders, mcSnapshot, mcReturned>>

\* RecordLog: atomic.AddInt64(&mc.totalLogs, 1).
RecordLogTotal(r) ==
  /\ mpc[RecProc(r)] = "total"
  /\ mcTotalLogs' = mcTotalLogs + 1
  /\ mpc' = [mpc EXCEPT ![RecProc(r)] = "level"]
  /\ UNCHANGED <<dvars, bvars, cvars, wvars, svars, fvars, pvars,
                 mcLogsByLevel, mcWriter, mcReaders, mcArg, mcSnapshot,
                 mcReturned, mcOps>>

\* RecordLog: mc.logsByLevel[entry.Level]++, and the deferred Unlock.
RecordLogLevel(r) ==
  /\ mpc[RecProc(r)] = "level"
  /\ mcLogsByLevel' = [mcLogsByLevel EXCEPT ![mcArg[r]] = @ + 1]
  /\ mcWriter' = IF mcWriter = RecProc(r) THEN NoProc ELSE mcWriter
  /\ mpc' = [mpc EXCEPT ![RecProc(r)] = "idle"]
  /\ UNCHANGED <<dvars, bvars, cvars, wvars, svars, fvars, pvars, mcTotalLogs,
                 mcReaders, mcArg, mcSnapshot, mcReturned, mcOps>>

\* GetMetrics: mc.mu.RLock().
GetMetricsLock ==
  /\ mpc[GetterProc] = "idle"
  /\ mcOps < MaxMetricOps
  /\ McRLockFree
  /\ mcOps' = mcOps + 1
  /\ mcReaders' = mcReaders \cup {GetterProc}
  /\ mpc' = [mpc EXCEPT ![GetterProc] = "total"]
  /\ UNCHANGED <<dvars, bvars, cvars, wvars, svars, fvars, pvars, mcTotalLogs,
                 mcLogsByLevel, mcWriter, mcArg, mcSnapshot, mcReturned>>

\* GetMetrics: the new map, with "total_logs": atomic.LoadInt64(&mc.totalLogs)
\* and an empty "logs_by_level".
GetMetricsTotal ==
  /\ mpc[GetterProc] = "total"
  /\ mcSnapshot' = [total |-> mcTotalLogs, levels |-> ZeroLevels]
  /\ mpc' = [mpc EXCEPT ![GetterProc] = "level"]
  /\ UNCHANGED <<dvars, bvars, cvars, wvars, svars, fvars, pvars, mcTotalLogs,
                 mcLogsByLevel, mcWriter, mcReaders, mcArg, mcReturned, mcOps>>

\* GetMetrics: the copy of mc.logsByLevel into a new map, the deferred RUnlock
\* and the return.
GetMetricsLevels ==
  /\ mpc[GetterProc] = "level"
  /\ mcSnapshot' = [mcSnapshot EXCEPT !.levels = mcLogsByLevel]
  /\ mcReaders' = mcReaders \ {GetterProc}
  /\ mcReturned' = mcReturned + 1
  /\ mpc' = [mpc EXCEPT ![GetterProc] = "idle"]
  /\ UNCHANGED <<dvars, bvars, cvars, wvars, svars, fvars, pvars, mcTotalLogs,
                 mcLogsByLevel, mcWriter, mcArg, mcOps>>

\* Reset: mc.mu.Lock().
ResetLock ==
  /\ mpc[ResetterProc] = "idle"
  /\ mcOps < MaxMetricOps
  /\ McLockFree
  /\ mcOps' = mcOps + 1
  /\ mcWriter' = ResetterProc
  /\ mpc' = [mpc EXCEPT ![ResetterProc] = "total"]
  /\ UNCHANGED <<dvars, bvars, cvars, wvars, svars, fvars, pvars, mcTotalLogs,
                 mcLogsByLevel, mcReaders, mcArg, mcSnapshot, mcReturned>>

\* Reset: atomic.StoreInt64(&mc.totalLogs, 0).
ResetTotal ==
  /\ mpc[ResetterProc] = "total"
  /\ mcTotalLogs' = 0
  /\ mpc' = [mpc EXCEPT ![ResetterProc] = "level"]
  /\ UNCHANGED <<dvars, bvars, cvars, wvars, svars, fvars, pvars,
                 mcLogsByLevel, mcWriter, mcReaders, mcArg, mcSnapshot,
                 mcReturned, mcOps>>

\* Reset: every count of mc.logsByLevel set to 0, and the deferred Unlock.
ResetLevels ==
  /\ mpc[ResetterProc] = "level"
  /\ mcLogsByLevel' = ZeroLevels
  /\ mcWriter' = IF mcWriter = ResetterProc THEN NoProc ELSE mcWriter
  /\ mpc' = [mpc EXCEPT ![ResetterProc] = "idle"]
  /\ UNCHANGED <<dvars, bvars, cvars, wvars, svars, fvars, pvars, mcTotalLogs,
                 mcReaders, mcArg, mcSnapshot, mcReturned, mcOps>>

NextMetrics ==
  \/ \E r \in Recorders, lvl \in CallLevels : RecordLogLock(r, lvl)
  \/ \E r \in Recorders : RecordLogTotal(r)
  \/ \E r \in Recorders : RecordLogLevel(r)
  \/ GetMetricsLock
  \/ GetMetricsTotal
  \/ GetMetricsLevels
  \/ ResetLock
  \/ ResetTotal
  \/ ResetLevels

(***************************************************************************)
(* LogEntryPool                                                            *)
(***************************************************************************)

\* The Fields maps that New can allocate, by identity, and the pooled
\* LogEntry: its message and the map its Fields refers to.
NoFields == [k \in Keys |-> NoValue]
NoPoolEntry == [message |-> "", fields |-> 0]

\* NewObjectPool: an empty pool.
NewLogEntryPool ==
  /\ plPool = <<>>
  /\ plHeld = [c \in Callers |-> NoPoolEntry]
  /\ plMaps = [id \in 1..MaxMaps |-> NoFields]
  /\ plAllocated = 0
  /\ plOps = 0

\* GetLogEntry: LogEntryPool.Get() returns an entry of the pool, any of them,
\* or the result of New; the entry is then reset and its map emptied.
GetLogEntry(c) ==
  /\ plHeld[c] = NoPoolEntry
  /\ plOps < MaxPoolOps
  /\ plOps' = plOps + 1
  /\ \/ \E i \in DOMAIN plPool :
          /\ plHeld' = [plHeld EXCEPT ![c] = [message |-> "", fields |-> plPool[i].fields]]
          /\ plMaps' = [plMaps EXCEPT ![plPool[i].fields] = NoFields]
          /\ plPool' = SubSeq(plPool, 1, i - 1) \o SubSeq(plPool, i + 1, Len(plPool))
          /\ UNCHANGED plAllocated
     \/ /\ plAllocated < MaxMaps
        /\ plAllocated' = plAllocated + 1
        /\ plHeld' = [plHeld EXCEPT ![c] = [message |-> "", fields |-> plAllocated + 1]]
        /\ plMaps' = [plMaps EXCEPT ![plAllocated + 1] = NoFields]
        /\ UNCHANGED plPool
  /\ UNCHANGED <<dvars, bvars, cvars, wvars, svars, fvars, mvars>>

\* A caller fills the entry it holds: a message, and one field.
UseLogEntry(c, key) ==
  /\ plHeld[c] # NoPoolEntry
  /\ plMaps[plHeld[c].fields][key] = NoValue
  /\ plOps < MaxPoolOps
  /\ plOps' = plOps + 1
  /\ plHeld' = [plHeld EXCEPT ![c].message = "msg"]
  /\ plMaps' = [plMaps EXCEPT ![plHeld[c].fields][key] = 1]
  /\ UNCHANGED <<dvars, bvars, cvars, wvars, svars, fvars, mvars, plPool,
                 plAllocated>>

\* PutLogEntry: LogEntryPool.Put(entry); the entry goes to the pool as it is,
\* its map untouched.
PutLogEntry(c) ==
  /\ plHeld[c] # NoPoolEntry
  /\ plOps < MaxPoolOps
  /\ plOps' = plOps + 1
  /\ plPool' = Append(plPool, plHeld[c])
  /\ plHeld' = [plHeld EXCEPT ![c] = NoPoolEntry]
  /\ UNCHANGED <<dvars, bvars, cvars, wvars, svars, fvars, mvars, plMaps,
                 plAllocated>>

\* sync.Pool: the runtime may drop the pooled entries at any time.
PoolCollected ==
  /\ plPool # <<>>
  /\ plPool' = <<>>
  /\ UNCHANGED <<dvars, bvars, cvars, wvars, svars, fvars, mvars, plHeld,
                 plMaps, plAllocated, plOps>>

NextPool ==
  \/ \E c \in Callers : GetLogEntry(c)
  \/ \E c \in Callers, key \in Keys : UseLogEntry(c, key)
  \/ \E c \in Callers : PutLogEntry(c)
  \/ PoolCollected

(***************************************************************************)
(* The specifications                                                      *)
(***************************************************************************)

vars == <<dvars, bvars, cvars, wvars, svars, fvars, mvars, pvars>>

\* The Dispatcher over a sink that never fails; the others are not used.
InitDispatcher ==
  /\ \E wc \in WorkerCounts, bs \in BufferSizes : NewAsyncLogger(wc, bs)
  /\ NewBatchWriter(1, 0, {})
  /\ NewCoreLogger("core", FALSE, FALSE, FALSE, <<>>, FALSE)
  /\ NewBaseWriter(1)
  /\ NewRateSampler(0)
  /\ NewFieldFilter("eq", IntValue, Absent)
  /\ NewMetricsCollector
  /\ NewLogEntryPool

\* The Batcher over a sink with a plan of failures; the Dispatcher is not used.
InitBatcher ==
  /\ NewAsyncLogger(1, 1)
  /\ \E bs \in BatchSizes, mr \in MaxRetriesChoices, plan \in FailPlans :
       NewBatchWriter(bs, mr, plan)
  /\ NewCoreLogger("core", FALSE, FALSE, FALSE, <<>>, FALSE)
  /\ NewBaseWriter(1)
  /\ NewRateSampler(0)
  /\ NewFieldFilter("eq", IntValue, Absent)
  /\ NewMetricsCollector
  /\ NewLogEntryPool

\* The Facade: a CoreLogger, or an AdvancedLogger with or without metrics and
\* filter, over a writer that fails or not; the others are not used.
InitCore ==
  /\ NewAsyncLogger(1, 1)
  /\ NewBatchWriter(1, 0, {})
  /\ \E variant \in Variants, metrics \in BOOLEAN, filter \in BOOLEAN,
        sampler \in BOOLEAN, hooks \in HookConfigs, fails \in BOOLEAN :
       /\ variant = "core" => (~metrics /\ ~filter /\ ~sampler)
       /\ NewCoreLogger(variant, metrics, filter, sampler, hooks, fails)
  /\ NewBaseWriter(1)
  /\ NewRateSampler(0)
  /\ NewFieldFilter("eq", IntValue, Absent)
  /\ NewMetricsCollector
  /\ NewLogEntryPool

\* The BaseWriter under a CoreLogger, over an output that does not fail.
InitBaseWriter ==
  /\ NewAsyncLogger(1, 1)
  /\ NewBatchWriter(1, 0, {})
  /\ NewCoreLogger("core", FALSE, FALSE, FALSE, <<>>, FALSE)
  /\ \E bs \in BatchSizes : NewBaseWriter(bs)
  /\ NewRateSampler(0)
  /\ NewFieldFilter("eq", IntValue, Absent)
  /\ NewMetricsCollector
  /\ NewLogEntryPool

\* A RateSampler of any rate.
InitSampler ==
  /\ NewAsyncLogger(1, 1)
  /\ NewBatchWriter(1, 0, {})
  /\ NewCoreLogger("core", FALSE, FALSE, FALSE, <<>>, FALSE)
  /\ NewBaseWriter(1)
  /\ \E rate \in Rates : NewRateSampler(rate)
  /\ NewFieldFilter("eq", IntValue, Absent)
  /\ NewMetricsCollector
  /\ NewLogEntryPool

NextDispatcher ==
  \/ \E p \in Producers, lvl \in CallLevels : LogEnter(p, lvl)
  \/ \E p \in Producers : LogSend(p)
  \/ \E w \in Workers : WorkerRecv(w)
  \/ \E w \in Workers : WorkerChanClosed(w)
  \/ \E w \in Workers : WorkerCtxDone(w)
  \/ \E w \in Workers : WorkerTick(w)
  \/ FlushLoopTick
  \/ FlushLoopSync
  \/ SyncCall
  \/ FlushLoopDone
  \/ \E c \in Closers : CloseCAS(c)
  \/ \E c \in Closers : CloseCancel(c)
  \/ \E c \in Closers : CloseChan(c)
  \/ \E c \in Closers : CloseWait(c)

SpecDispatcher == InitDispatcher /\ [][NextDispatcher]_vars

\* A public level method of the AsyncLogger (Debug ... Fatalf): the method is
\* the embedded CoreLogger's, and its l.log is CoreLogger.log, which gates on
\* the level and writes the entry to the writer before it returns; it reads
\* neither l.closed nor l.entryChan.
PublicLevelCall(p, lvl) ==
  /\ Alive
  /\ ppc[p] = "idle"
  /\ ProducerTurn(p)
  /\ nused < MaxCalls
  /\ pcalls' = [pcalls EXCEPT ![p] = @ + 1]
  /\ sink' = IF BelowThreshold(lvl) THEN sink
             ELSE Append(sink, LogEntry(lvl, p, pcalls[p] + 1))
  /\ UNCHANGED <<bvars, cvars, wvars, svars, fvars, mvars, pvars, lateCalls, level, workerCount,
                 bufferSize, entryChan, chanClosed, closed, ctxDone,
                 tickerStopped, wpc, wbatch, fpc, ppc, pentry, nsyncs, cpc,
                 sinkCloseCount, chanCloseCount, DroppedLogs, TotalLogs,
                 panicked, returnedBeforeClose, enqueuedBeforeClose>>

\* The Dispatcher while it is open: no call of Close is made.
NextDispatcherOpen ==
  \/ \E p \in Producers, lvl \in CallLevels : LogEnter(p, lvl)
  \/ \E p \in Producers : LogSend(p)
  \/ \E w \in Workers : WorkerRecv(w)
  \/ \E w \in Workers : WorkerTick(w)
  \/ FlushLoopTick
  \/ FlushLoopSync
  \/ SyncCall

\* The open Dispatcher used through the public level methods as well.
NextDispatcherPublic ==
  \/ NextDispatcherOpen
  \/ \E p \in Producers, lvl \in CallLevels : PublicLevelCall(p, lvl)

SpecDispatcherPublic == InitDispatcher /\ [][NextDispatcherPublic]_vars

\* The open Dispatcher with its workers scheduled fairly: a worker that can
\* receive does receive, and its 10 ms ticker fires while its batch waits.
SpecDispatcherLive ==
  /\ InitDispatcher
  /\ [][NextDispatcherOpen]_vars
  /\ \A w \in Workers : WF_vars(WorkerRecv(w)) /\ WF_vars(WorkerTick(w))

\* One producer calling log in a loop on the open logger, at the threshold:
\* the gates pass, the entry is built, and the select enqueues it or drops it.
\* The calls explored go past the capacity of a worker's batch with one
\* worker, and up to MaxCalls with more.
LogBurst ==
  /\ Alive
  /\ ~IsClosed
  /\ ppc[1] = "idle"
  /\ ncalls < (IF workerCount = 1 THEN MaxBurst ELSE MaxCalls)
  /\ pcalls' = [pcalls EXCEPT ![1] = @ + 1]
  /\ LET e == LogEntry(LevelInfo, 1, pcalls[1] + 1)
     IN  /\ returnedBeforeClose' = returnedBeforeClose \cup {e}
         /\ IF ChanFull(entryChan)
              THEN /\ DroppedLogs' = DroppedLogs + 1
                   /\ UNCHANGED <<entryChan, enqueuedBeforeClose>>
              ELSE /\ entryChan' = ChanSent(entryChan, e)
                   /\ enqueuedBeforeClose' = enqueuedBeforeClose \cup {e}
                   /\ UNCHANGED DroppedLogs
  /\ UNCHANGED <<bvars, cvars, wvars, svars, fvars, mvars, pvars, lateCalls, level, workerCount,
                 bufferSize, chanClosed, closed, ctxDone, tickerStopped, wpc,
                 wbatch, fpc, ppc, pentry, nsyncs, cpc, sink, sinkCloseCount,
                 chanCloseCount, TotalLogs, panicked>>

\* The workers of the open Dispatcher under a burst.
NextDispatcherBurst ==
  \/ LogBurst
  \/ \E w \in Workers : WorkerRecv(w)
  \/ \E w \in Workers : WorkerTick(w)

\* One worker behind a buffer that holds the whole burst, or two workers
\* behind a buffer of two.
InitDispatcherBurst ==
  /\ \/ NewAsyncLogger(1, MaxBurst)
     \/ NewAsyncLogger(2, 2)
  /\ NewBatchWriter(1, 0, {})
  /\ NewCoreLogger("core", FALSE, FALSE, FALSE, <<>>, FALSE)
  /\ NewBaseWriter(1)
  /\ NewRateSampler(0)
  /\ NewFieldFilter("eq", IntValue, Absent)
  /\ NewMetricsCollector
  /\ NewLogEntryPool

SpecDispatcherBurst == InitDispatcherBurst /\ [][NextDispatcherBurst]_vars

\* The Dispatcher left to itself: its workers, flushLoop and the callers of
\* Close; no log call and no call of Sync is made.
NextDispatcherShutdown ==
  \/ \E w \in Workers : WorkerRecv(w)
  \/ \E w \in Workers : WorkerChanClosed(w)
  \/ \E w \in Workers : WorkerCtxDone(w)
  \/ \E w \in Workers : WorkerTick(w)
  \/ FlushLoopTick
  \/ FlushLoopSync
  \/ FlushLoopDone
  \/ \E c \in Closers : CloseCAS(c)
  \/ \E c \in Closers : CloseCancel(c)
  \/ \E c \in Closers : CloseChan(c)
  \/ \E c \in Closers : CloseWait(c)

\* Its goroutines scheduled fairly: a goroutine that can take a step does
\* take it; whether and when Close is called and the flush ticker fires is
\* left open.
SpecDispatcherShutdown ==
  /\ InitDispatcher
  /\ [][NextDispatcherShutdown]_vars
  /\ \A w \in Workers :
       /\ WF_vars(WorkerRecv(w)) /\ WF_vars(WorkerTick(w))
       /\ WF_vars(WorkerChanClosed(w)) /\ WF_vars(WorkerCtxDone(w))
  /\ WF_vars(FlushLoopSync) /\ WF_vars(FlushLoopDone)
  /\ \A c \in Closers :
       WF_vars(CloseCancel(c)) /\ WF_vars(CloseChan(c)) /\ WF_vars(CloseWait(c))

SpecBatcher == InitBatcher /\ [][NextBatcher]_vars

SpecCore == InitCore /\ [][NextCore]_vars

SpecBaseWriter == InitBaseWriter /\ [][NextBaseWriter]_vars

SpecSampler == InitSampler /\ [][NextSampler]_vars

\* A FieldFilter of any operator and target value, and any field value.
InitFieldFilter ==
  /\ NewAsyncLogger(1, 1)
  /\ NewBatchWriter(1, 0, {})
  /\ NewCoreLogger("core", FALSE, FALSE, FALSE, <<>>, FALSE)
  /\ NewBaseWriter(1)
  /\ NewRateSampler(0)
  /\ \E op \in Operators, target \in FieldValues \ {Absent},
        value \in FieldValues :
       NewFieldFilter(op, target, value)
  /\ NewMetricsCollector
  /\ NewLogEntryPool

SpecFieldFilter == InitFieldFilter /\ [][ShouldLog]_vars

\* A new MetricsCollector and the empty LogEntryPool.
InitUtilities ==
  /\ NewAsyncLogger(1, 1)
  /\ NewBatchWriter(1, 0, {})
  /\ NewCoreLogger("core", FALSE, FALSE, FALSE, <<>>, FALSE)
  /\ NewBaseWriter(1)
  /\ NewRateSampler(0)
  /\ NewFieldFilter("eq", IntValue, Absent)
  /\ NewMetricsCollector
  /\ NewLogEntryPool

SpecMetrics == InitUtilities /\ [][NextMetrics]_vars

SpecPool == InitUtilities /\ [][NextPool]_vars

(***************************************************************************)
(* Claims about the Dispatcher                                             *)
(***************************************************************************)

\* Some call of Close has gone through the whole shutdown and returned.
CloseReturned == \E c \in Closers : cpc[c] = "closed"
\* No log call is between its closed check and its send.
AllCallsReturned == \A p \in Producers : ppc[p] = "idle"
\* Every entry made by a log call saw its call return before Close was invoked.
AllCallsBeforeClose == Cardinality(returnedBeforeClose) = ncalls
\* The entries of producer p's first n calls, in call order.
CallsOf(p, n) == [k \in 1..n |-> LogEntry(LevelInfo, p, k)]

\* C1: once Close has returned, every entry that a log call placed on the
\* queue before Close was invoked has been written to the sink.
C1_NoEnqueuedEntryLost ==
  CloseReturned => enqueuedBeforeClose \subseteq Range(sink)

\* C2: all calls were made into the open Dispatcher and have returned, more
\* calls than the queue holds, Close has returned: the entries the sink
\* received plus DroppedLogs are exactly the calls.
C2_Conservation ==
  (CloseReturned /\ Alive /\ AllCallsReturned /\ AllCallsBeforeClose
     /\ bufferSize < ncalls)
  => Len(sink) + DroppedLogs = ncalls

\* C3: the enqueue attempt of a log call drops the entry and adds one to
\* DroppedLogs when the queue is full, enqueues it and leaves DroppedLogs
\* alone when there is room; the call returns without an error.
C3_NonBlockingEnqueue ==
  [][\A p \in Producers :
       (ppc[p] = "send" /\ ppc'[p] = "idle") =>
         /\ panicked' = "no"
         /\ IF Len(entryChan) >= bufferSize
              THEN entryChan' = entryChan /\ DroppedLogs' = DroppedLogs + 1
              ELSE /\ entryChan' = Append(entryChan, pentry[p])
                   /\ DroppedLogs' = DroppedLogs]_vars

\* C4: one worker, one producer whose sequential calls all fit the queue and
\* returned before Close: when Close has returned the sink holds exactly the
\* entries of those calls, each once, in call order.
C4_EndToEndOrder ==
  (CloseReturned /\ Alive /\ workerCount = 1 /\ AllCallsBeforeClose
     /\ pcalls[1] = ncalls /\ ncalls <= bufferSize)
  => sink = CallsOf(1, ncalls)

\* C5: whatever the interleaving of the calls of Close, one call at most
\* performs the shutdown, the queue is closed once at most and the sink's
\* Close invoked once at most, and no close of a closed channel panics.
ShuttingDown == {c \in Closers : cpc[c] \in {"cancel", "closechan", "wait", "closed"}}
C5_CloseIdempotent ==
  /\ Cardinality(ShuttingDown) <= 1
  /\ chanCloseCount <= 1
  /\ sinkCloseCount <= 1
  /\ panicked # "close of closed channel"
\* Two calls of Close have returned: one shut down, the other returned nil.
C5_Witness ==
  /\ \E c \in Closers : cpc[c] = "closed"
  /\ \E c \in Closers : cpc[c] = "returned"
  /\ sinkCloseCount = 1

(***************************************************************************)
(* Claims about the Batcher                                                *)
(***************************************************************************)

\* A flushBatch is running (its caller holds the lock).
FlushInProgress == bwMu # NoProc
\* The sink is one that fails its first n write calls and no other.
FailsFirst(n) == failPlan = 1..n

\* C6: with a sink that does not fail, once the sink's Close has been invoked
\* every entry whose WriteEntry returned before Close was called is among the
\* entries the sink was given.
C6_CloseLosesNothing ==
  (bwSinkCloseCount > 0 /\ failPlan = {})
  => wroteBeforeClose \subseteq Range(bwSink)
\* Close has closed the sink after an entry that no WriteEntry flushed (the
\* buffer was never full) went to the sink.
C6_Witness ==
  /\ bwSinkCloseCount = 1
  /\ failPlan = {}
  /\ bwBatchSize = 2
  /\ Cardinality(wroteBeforeClose) = 1
  /\ Len(bwSink) = 1

\* C7: outside the critical section of WriteEntry the pending buffer holds
\* fewer than batchSize entries, so the append made inside it never takes the
\* buffer beyond batchSize, and a returning WriteEntry leaves fewer than
\* batchSize entries behind.
C7_BufferBelowBatchSize == Len(bwBatch) < bwBatchSize
\* A WriteEntry has filled the buffer and flushed its two entries in one batch.
C7_Witness ==
  /\ bwBatchSize = 2
  /\ TotalBatches = 1
  /\ RetryCount = 0
  /\ Len(bwSink) = 2
  /\ bwBatch = <<>>
  /\ ~FlushInProgress

\* C8: when the only flush made so far has failed at every attempt,
\* FailedBatches is 1 and RetryCount is MaxRetries.
C8_RetryExhaustion ==
  (FailedBatches = 1 /\ TotalBatches = 0 /\ ~FlushInProgress)
  => RetryCount = bwMaxRetries

\* C9: over a sink that fails its first MaxRetries - 1 write calls and then
\* succeeds, every flushBatch ends with the whole batch in the sink,
\* FailedBatches still 0, TotalBatches one higher, and a nil result.
C9_RetrySuccess ==
  [][(FailsFirst(bwMaxRetries - 1) /\ bwMu # NoProc /\ bwMu' = NoProc)
       => /\ FailedBatches' = 0
          /\ TotalBatches' = TotalBatches + 1
          /\ Range(flBatch) \subseteq Range(bwSink')
          /\ bwMu[1] \in {"writer", "flusher"} => bwReturn' = <<bwMu, "nil">>
          /\ bwMu[1] = "closer" => bpc'[bwMu] = "sinkclose"]_vars
\* MaxRetries is 2, the sink has failed once, and the flush has succeeded.
C9_Witness ==
  /\ bwMaxRetries = 2
  /\ FailsFirst(1)
  /\ RetryCount = 1
  /\ TotalBatches = 1
  /\ FailedBatches = 0
  /\ ~FlushInProgress

\* C10 as claimed (for MaxRetries >= 1): a flush makes an attempt on the sink
\* only while fewer than MaxRetries attempts have been made for the batch.
C10_AtMostMaxRetriesAttempts ==
  [][(bwMaxRetries >= 1 /\ sinkCalls' # sinkCalls)
       => flRetries < bwMaxRetries]_vars

\* C10 as amended: a flush makes an attempt on the sink only while at most
\* MaxRetries attempts have been made for the batch, that is MaxRetries + 1
\* attempts at most; an attempt adds one to RetryCount exactly when the sink
\* fails it; the failure of attempt MaxRetries + 1 ends the flush and marks
\* the batch failed.
C10_AtMostMaxRetriesPlusOne ==
  [][sinkCalls' # sinkCalls
       => /\ flRetries <= bwMaxRetries
          /\ RetryCount' = RetryCount
                             + (IF FailAt(flBatch, sinkCalls) # 0 THEN 1 ELSE 0)
          /\ (flRetries = bwMaxRetries /\ FailAt(flBatch, sinkCalls) # 0)
               => (FailedBatches' = FailedBatches + 1 /\ bwMu' = NoProc)]_vars
\* The retries of a batch are exhausted: MaxRetries + 1 attempts have failed.
C10_Witness ==
  /\ bwMaxRetries >= 1
  /\ FailedBatches = 1
  /\ TotalBatches = 0
  /\ RetryCount = bwMaxRetries + 1
  /\ ~FlushInProgress

\* C11: an explicit Flush whose retries are exhausted returns the error, one
\* that succeeds returns nil, and a Flush of an empty buffer returns nil; a
\* flush of the flush goroutine that exhausts its retries adds one to
\* FailedBatches and no caller is handed its error.
C11_FlushErrorToExplicitCaller ==
  [][/\ (bpc[FlusherProc] = "flush" /\ bpc'[FlusherProc] = "idle")
          => bwReturn' = <<FlusherProc, IF FailedBatches' = FailedBatches + 1
                                          THEN "err" ELSE "nil">>
     /\ (bpc[FlusherProc] = "idle" /\ bpc'[FlusherProc] = "idle"
           /\ bwBatch = <<>> /\ bwReturn' # bwReturn
           /\ bwReturn'[1] = FlusherProc)
          => bwReturn'[2] = "nil"
     /\ (bwMu = LoopProc /\ bwMu' = NoProc)
          => /\ bwReturn' = bwReturn
             /\ FailedBatches' \in {FailedBatches, FailedBatches + 1}
             /\ FailedBatches' = FailedBatches + 1 <=> TotalBatches' = TotalBatches]_vars
\* An explicit Flush has exhausted its retries and returned the error.
C11_Witness ==
  /\ bwReturn = <<FlusherProc, "err">>
  /\ FailedBatches = 1
  /\ TotalBatches = 0
  /\ ~FlushInProgress

\* C12: a log call made after Close has returned returns normally, enqueues
\* nothing, writes nothing to the sink, and adds one to the counter of
\* dropped entries.
C12_PostCloseCallCounted ==
  [][(CloseReturned /\ lateCalls' = lateCalls + 1)
       => /\ panicked' = "no"
          /\ entryChan' = entryChan
          /\ sink' = sink
          /\ DroppedLogs' = DroppedLogs + 1]_vars

\* C16: when a call of Sync on the open logger returns, every entry that a
\* completed log call placed on the queue has been handed to the sink.
C16_SyncWaitsForAll ==
  [][(nsyncs' = nsyncs + 1 /\ fpc' = fpc /\ closed = 0 /\ panicked' = "no")
       => enqueuedBeforeClose \subseteq Range(sink')]_vars

\* A call of the sink's Close is in progress.
SinkCloseInProgress == \E c \in Closers : bpc[CloserProc(c)] = "sinkclosing"

\* C17: the entry writes of a batch are made by the holder of the lock only,
\* and neither they nor a second Close of the sink happen while a call of the
\* sink's Close is in progress.
C17_SinkAccessSerialized ==
  [][/\ sinkCalls' # sinkCalls => (bwMu # NoProc /\ ~SinkCloseInProgress)
     /\ bwSinkCloseCount' # bwSinkCloseCount => ~SinkCloseInProgress]_vars

\* The callers of the Batcher's Close that are past the guard.
BwShuttingDown ==
  {c \in Closers : bpc[CloserProc(c)] \notin {"idle", "returned"}}

Written == clSink'[Len(clSink')]

\* C13: a log call goes past the level gate only with a level at or above
\* the threshold its logger has at that moment (the level of its construction
\* or of the latest SetLevel), and every entry handed to the sink has a level
\* at or above the threshold its call found.
C13_PureLevelGate ==
  [][/\ \A k \in Callers :
          (kpc[k] = "idle" /\ kpc'[k] = "hooks")
            => /\ kentry'[k].thr = clLevel[kentry'[k].logger]
               /\ kentry'[k].level >= kentry'[k].thr
     /\ clSink' # clSink
          => /\ Written.level >= Written.thr
             /\ \E k \in Callers : kpc[k] = "write" /\ Written = kentry[k]]_vars
\* SetLevel has lowered the threshold of the constructed logger from Info to
\* Debug and a Debug call on it has been written.
C13_Witness ==
  /\ clLevel[1] = LevelDebug
  /\ \E i \in DOMAIN clSink :
       /\ clSink[i].logger = 1
       /\ clSink[i].level = LevelDebug
       /\ clSink[i].thr = LevelDebug

\* The fields a logger owns by its derivation: none for the constructed
\* logger; for a derived logger those of its parent and the added one.
RECURSIVE OwnFields(_)
OwnFields(lg) ==
  IF clParent[lg] = 0
    THEN [k \in Keys |-> NoValue]
    ELSE [k \in Keys |-> IF k = clAdded[lg][1] THEN clAdded[lg][2]
                                                ELSE OwnFields(clParent[lg])[k]]

\* C14: whatever the interleaving of derivations and log calls, no step
\* changes the field map of an existing logger, and every entry handed to the
\* sink carries exactly the fields its logger owns: the parent's entries
\* never show a field added for a child, the child's entries show the
\* parent's fields and the added one.
C14_WithFieldIsolation ==
  [][/\ \A lg \in Loggers : lg <= clCount => clFields'[lg] = clFields[lg]
     /\ clSink' # clSink => Written.fields = OwnFields(Written.logger)]_vars
\* A child and a grandchild were derived with different keys, and the sink
\* holds an entry of the grandchild.
C14_Witness ==
  /\ clCount >= 3
  /\ clParent[3] = 2
  /\ clAdded[3][1] # clAdded[2][1]
  /\ \E i \in DOMAIN clSink : clSink[i].logger = 3

\* C15: a write that the sink fails ends the log call normally and adds one
\* to the error counter, whichever logger made the call.
C15_WriteFailureCounted ==
  [][clWriteErrors' = clWriteErrors + 1
       => /\ clErrorCount' = clErrorCount + 1
          /\ \E k \in Callers : kpc[k] = "write" /\ kpc'[k] = "idle"]_vars

\* C19: when an entry is handed to the sink, its log call has fired once
\* every hook whose Levels() is empty or holds the entry's level and has not
\* fired any other; no hook is fired twice for one entry; an entry that the
\* hooks have seen is handed to the sink by the same call.
C19_HooksFiredOnceBeforeWrite ==
  [][/\ clSink' # clSink
          => \E k \in Callers :
               /\ kpc[k] = "write"
               /\ Written = kentry[k]
               /\ \A h \in 1..Len(clHooks) :
                    kfired[k][h] =
                      IF clHooks[h].levels = {} \/ Written.level \in clHooks[h].levels
                        THEN 1 ELSE 0
     /\ \A k \in Callers :
          /\ \A h \in 1..Len(clHooks) : kfired'[k][h] <= 1
          /\ (kpc[k] = "hooks" /\ kpc'[k] # "hooks")
               => (kpc'[k] = "write" /\ kentry'[k] = kentry[k])
          /\ (kpc[k] = "write" /\ kpc'[k] # "write")
               => (kpc'[k] = "idle" /\ Written = kentry[k])]_vars
\* Of a hook for Debug and a hook for Debug and Info, the second only was
\* fired for an Info entry, which the sink has then received.
C19_Witness ==
  /\ Len(clHooks) = 2
  /\ clHooks[1].levels = {LevelDebug}
  /\ clSink # <<>>
  /\ clSink[Len(clSink)].level = LevelInfo
  /\ \E k \in Callers : kpc[k] = "idle" /\ kfired[k][1] = 0 /\ kfired[k][2] = 1

\* C20: a log call whose hooks fail goes on to the write of its entry, and
\* every failure of a hook adds one to the error counter.
C20_HookFailureCounted ==
  [][clHookErrors' # clHookErrors
       => /\ clErrorCount' - clErrorCount = clHookErrors' - clHookErrors
          /\ \E k \in Callers :
               /\ kpc[k] = "hooks" /\ kpc'[k] = "write"
               /\ \A h \in 1..Len(clHooks) :
                    kfired'[k][h] =
                      IF clHooks[h].levels = {} \/ kentry[k].level \in clHooks[h].levels
                        THEN 1 ELSE 0]_vars

(***************************************************************************)
(* Further claims about the Dispatcher and the Batcher                     *)
(***************************************************************************)

\* C23: no log call, Sync call or flush tick ever reaches a send on the
\* entry channel after Close has closed it.
C23_NoSendOnClosedChannel == panicked # "send on closed channel"

\* C24: the sink calls of a flush are made with the buffer lock released.
C24_LockReleasedBeforeSinkIO ==
  [][sinkCalls' # sinkCalls => bwMu = NoProc]_vars

\* C25: the sink's Close is invoked only when every worker has made its
\* last flush and returned, and no entry is written to the sink after it.
C25_ShutdownOrdering ==
  [][/\ sinkCloseCount' # sinkCloseCount
          => \A w \in Workers : wpc[w] \in {"done", "none"}
     /\ sinkCloseCount > 0 => sink' = sink]_vars
\* Two workers have flushed entries and returned, then the sink was closed.
C25_Witness ==
  /\ sinkCloseCount = 1
  /\ workerCount = 2
  /\ \A w \in Workers : wpc[w] = "done"
  /\ Len(sink) >= 2

\* C26: the marker entry that Sync sends through the data channel is never
\* written to the sink, and TotalLogs counts entries of log calls only.
C26_SentinelNeverDelivered ==
  /\ Sentinel \notin Range(sink)
  /\ TotalLogs <= ncalls

\* C28: once Close has returned and no WriteEntry call is in progress, the
\* pending buffer holds no entry: the entry of a call that returned nil has
\* been flushed.
C28_NoEntryLeftAfterClose ==
  ((\E c \in Closers : bpc[CloserProc(c)] = "closed")
     /\ \A w \in Writers : bpc[WriterProc(w)] = "idle")
  => bwBatch = <<>>

\* C29: the sink accepts every entry once at most.
C29_AtMostOnceDelivery ==
  \A i, j \in DOMAIN bwSink : bwSink[i] = bwSink[j] => i = j

\* The entries that log calls can make (the threshold is LevelInfo).
PossibleEntries ==
  {LogEntry(LevelInfo, p, k) : p \in Producers, k \in 1..MaxCalls}
\* The entries waiting in the channel or in the batch of a worker.
Pending == Range(entryChan) \cup UNION {Range(wbatch[w]) : w \in Workers}

\* C30: with fair workers and timers, an entry on the queue of the open
\* Dispatcher is eventually written to the sink, whether or not another
\* entry arrives.
C30_BoundedStaleness ==
  \A e \in PossibleEntries : (e \in Range(entryChan)) ~> (e \in Range(sink))
\* An entry that was alone in the batch of a worker has been written by the
\* worker's timer, the Dispatcher still being open.
C30_Witness ==
  /\ closed = 0
  /\ Len(sink) = 1
  /\ sink[1].level = LevelInfo
  /\ Pending = {}
  /\ ncalls = 1

\* The entries of the log calls made so far through the BaseWriter.
WsAllEntries ==
  {e \in [src : Goroutines, seq : 1..MaxLogCalls] : e.seq <= gcalls[e.src]}
\* A call of Close on the BaseWriter has returned.
WsCloseReturned ==
  \E c \in Closers : gpc[WsCloserProc(c)] \in {"closed", "returned"}
\* No log call is in progress.
WsCallsReturned == \A g \in Goroutines : gpc[GProc(g)] = "idle"

\* C21: with goroutines logging concurrently through a BaseWriter whose
\* flushLoop is running, no entry is ever written to the output twice, and
\* once Close has returned and every log call has returned without the
\* "writer is closed" error, every entry of every call is in the output.
C21_EveryEntryExactlyOnce ==
  /\ \A i, j \in 1..Len(wsOutput) : wsOutput[i] = wsOutput[j] => i = j
  /\ (WsCloseReturned /\ WsCallsReturned /\ wsRejected = 0)
       => Range(wsOutput) = WsAllEntries
\* Two goroutines have logged one entry each, Close has returned, and both
\* entries are in the output.
C21_Witness ==
  /\ WsCloseReturned
  /\ WsCallsReturned
  /\ wsRejected = 0
  /\ \A g \in Goroutines : gcalls[g] = 1
  /\ Len(wsOutput) = 2

\* C22: a RateSampler of rate 0 has rejected and one of rate 1 has accepted,
\* whatever the value of the draw.
C22_SamplerBoundaryExact ==
  rsResult # "none"
    => /\ rsRate = 0 => rsResult = "reject"
       /\ rsRate = DrawResolution => rsResult = "accept"
\* A sampler of rate 0 has rejected on the smallest draw, 0.
C22_Witness ==
  /\ rsRate = 0
  /\ rsDraw = 0
  /\ rsCounter > 0
  /\ rsResult = "reject"

\* C27: an entry reaches the sink only in the flush of a worker's batch, and
\* a log call leaves its entry to the channel or to the dropped counter.
C27_SinkWrittenOnlyByWorkers ==
  [][sink' # sink
       => \E w \in Workers : wbatch[w] # <<>> /\ wbatch'[w] = <<>>]_vars

\* The entries that workers have taken from the channel.
Dequeued == UNION {Range(wbatch[w]) : w \in Workers} \cup Range(sink)

\* C31: the entries of one producer lie in the channel in the order of the
\* producer's calls, and every entry of the producer that a worker has
\* already taken from the channel is of an earlier call than those still in
\* the channel.
C31_PerProducerFIFO ==
  /\ \A i, j \in 1..Len(entryChan) :
       (i < j /\ entryChan[i].src = entryChan[j].src /\ entryChan[i].src # 0)
         => entryChan[i].seq < entryChan[j].seq
  /\ \A e \in Range(entryChan), d \in Dequeued :
       (e.src = d.src /\ e.src # 0) => d.seq < e.seq
\* Two entries of one producer were in the channel together, and workers have
\* taken the first of them while the second is still in the channel.
C31_Witness ==
  /\ Len(entryChan) = 1
  /\ entryChan[1] = LogEntry(LevelInfo, 1, 2)
  /\ LogEntry(LevelInfo, 1, 1) \in Dequeued
  /\ DroppedLogs = 0
  /\ bufferSize = 2

\* C32: once a call of Close has won the compare-and-swap, every worker and
\* flushLoop eventually return and the call of Close returns.
C32_CloseTerminates ==
  (\E c \in Closers : cpc[c] = "cancel")
    ~> (/\ CloseReturned
        /\ \A w \in Workers : wpc[w] # "run"
        /\ fpc = "done")

\* No WriteEntry, Flush or Close of the Batcher is between its lock and its
\* return.
BwQuiescent ==
  /\ bwMu = NoProc
  /\ \A q \in BProcs : bpc[q] \notin {"lock", "writeflush", "flush", "finalflush"}

\* C33: the entries of a batch whose retries were exhausted are in neither the
\* pending buffer nor any batch being flushed afterwards, none of them is
\* counted as delivered, and in every quiescent state TotalEntries is the
\* number of the entries of delivered batches, of discarded batches and of the
\* pending buffer together.
C33_FailedBatchDiscarded ==
  /\ Range(bwBatch) \cap discardedEntries = {}
  /\ Range(flBatch) \cap discardedEntries = {}
  /\ deliveredEntries \cap discardedEntries = {}
  /\ BwQuiescent
       => TotalEntries = Cardinality(deliveredEntries)
                           + Cardinality(discardedEntries) + Len(bwBatch)
\* A batch was discarded after its retries, a later batch was delivered, and
\* the Batcher is quiescent.
C33_Witness ==
  /\ BwQuiescent
  /\ FailedBatches = 1
  /\ bwMaxRetries = 1
  /\ Cardinality(discardedEntries) = 1
  /\ Cardinality(deliveredEntries) = 1
  /\ TotalEntries = 2

\* C34: when the call of Close that won the compare-and-swap has returned,
\* with nil or with the error of its flush, the sink's Close has been invoked
\* exactly once.
C34_CloseAlwaysClosesSink ==
  (\E c \in Closers : bpc[CloserProc(c)] \in {"closed", "failed"})
    => bwSinkCloseCount = 1

\* C37: after every step the batch of every worker holds fewer than 100
\* entries, and a step that changes a worker's batch changes no other
\* worker's batch and either appends the oldest entry of the channel to it or
\* empties it, the sink receiving the entries of the batch in order.
C37_WorkerBatchBounded ==
  [][/\ \A w \in Workers : Len(wbatch'[w]) < WorkerBatchCap
     /\ \A w \in Workers :
          wbatch'[w] # wbatch[w]
            => /\ \A v \in Workers \ {w} : wbatch'[v] = wbatch[v]
               /\ \/ /\ entryChan # <<>>
                     /\ wbatch'[w] = Append(wbatch[w], Head(entryChan))
                     /\ sink' = sink
                  \/ /\ wbatch'[w] = <<>>
                     /\ sink' = sink \o wbatch[w]
                  \/ /\ entryChan # <<>>
                     /\ wbatch'[w] = <<>>
                     /\ sink' = sink \o Append(wbatch[w], Head(entryChan))]_vars
\* The one worker has received a burst of 100 entries and its batch is empty:
\* the sink holds the 100 entries, and the next entry waits in the channel.
C37_Witness ==
  /\ workerCount = 1
  /\ TotalLogs = WorkerBatchCap
  /\ Len(sink) = WorkerBatchCap
  /\ wbatch[1] = <<>>
  /\ Len(entryChan) = 1

\* C39: a derivation gives the new logger the threshold its parent has at
\* that moment and leaves every existing threshold alone, and a step that
\* changes the threshold of one logger, parent or derived, changes the
\* threshold of no other; a log call is admitted by the threshold of the
\* logger it is made on.
C39_LevelSnapshotAtDerivation ==
  [][/\ clCount' # clCount
          => /\ clLevel'[clCount'] = clLevel[clParent'[clCount']]
             /\ \A lg \in Loggers : lg <= clCount => clLevel'[lg] = clLevel[lg]
     /\ \A lg \in Loggers :
          (lg <= clCount /\ clLevel'[lg] # clLevel[lg])
            => \A x \in Loggers \ {lg} : clLevel'[x] = clLevel[x]
     /\ \A k \in Callers :
          (kpc[k] = "idle" /\ kpc'[k] = "hooks")
            => kentry'[k].level >= clLevel[kentry'[k].logger]]_vars
\* The parent was raised to Warn after the derivation, and an Info entry of
\* the derived logger, admitted by the threshold Info, is in the sink.
C39_Witness ==
  /\ clCount = 2
  /\ clParent[2] = 1
  /\ clLevel[1] = LevelWarn
  /\ clLevel[2] = LevelInfo
  /\ \E i \in DOMAIN clSink :
       /\ clSink[i].logger = 2
       /\ clSink[i].level = LevelInfo
       /\ clSink[i].thr = LevelInfo

IsSubstring(str, sub) ==
  \E i \in 0..Len(str) :
    i + Len(sub) <= Len(str) /\ SubSeq(str, i + 1, i + Len(sub)) = sub

\* C36: with the operator "contains", ShouldLog accepts exactly when the
\* field is present, its value and the target are strings, and the target
\* occurs in the value at some position.
C36_ContainsIsSubstring ==
  (ffOperator = "contains" /\ ffResult # "none")
    => (ffResult = "accept"
          <=> /\ ffValue.kind = "string"
              /\ ffTarget.kind = "string"
              /\ IsSubstring(ffValue.str, ffTarget.str))

\* The sum of the per-level counts of a snapshot.
RECURSIVE SumLevels(_, _)
SumLevels(f, lvls) ==
  IF lvls = {} THEN 0
  ELSE LET l == CHOOSE x \in lvls : TRUE
       IN  f[l] + SumLevels(f, lvls \ {l})

\* C38: the snapshot that GetMetrics returns has total_logs equal to the sum
\* of its per-level counts, whatever RecordLog and Reset calls run beside it,
\* and no step outside GetMetrics changes a snapshot.
C38_SnapshotConsistent ==
  [][/\ mcReturned' # mcReturned
          => mcSnapshot'.total = SumLevels(mcSnapshot'.levels, CallLevels)
     /\ mcSnapshot' # mcSnapshot
          => mpc[GetterProc] \in {"total", "level"}]_vars
\* A snapshot with logs of two levels was returned, and a RecordLog made
\* afterwards has left it as it was.
C38_Witness ==
  /\ mcReturned = 1
  /\ mcSnapshot.total = 2
  /\ mcSnapshot.levels[LevelDebug] = 1
  /\ mcSnapshot.levels[LevelInfo] = 1
  /\ mcTotalLogs = 3
  /\ \A q \in MProcs : mpc[q] = "idle"

\* C40: the Fields map of every entry the pool holds has no key.
C40_PooledEntryCleared ==
  \A i \in DOMAIN plPool : plMaps[plPool[i].fields] = NoFields

====
